---- MODULE Spec2Model ----
(***************************************************************************)
(* The HVAC calculator suite (DocComfort/HVAC-Calc) as a state machine.    *)
(*                                                                         *)
(* Each calculator is a React component: one state slot per input field    *)
(* (the text of an <input>, the value of a <select>), one slot for the     *)
(* stored result, and one click handler that reads the slots and calls     *)
(* setResult.  The model keeps the mounted component (app), its slots      *)
(* (fields), the stored result (result) and, for the two psychrometric     *)
(* components, the position inside the wet-bulb loop (pc, frame).  Two     *)
(* history variables record what the handlers did: runs counts the clicks  *)
(* on the calculate button since the last edit, fresh tells that the       *)
(* stored result was computed from the fields as they are now.             *)
(*                                                                         *)
(* App shows one calculator at a time: Spec starts on the filter           *)
(* calculator and setActiveCalculator mounts another one afresh.  Each     *)
(* SpecX is one component on its own, from the state after its mount.      *)
(*                                                                         *)
(* JavaScript numbers are modelled as decimal floating-point values with   *)
(* an 8-digit mantissa, m * 10^e, plus NaN and the two infinities:         *)
(* arithmetic rounds to 8 significant digits where IEEE-754 doubles round  *)
(* to 53 bits.  Text fields are sequences of one-character strings, so     *)
(* parseFloat, parseInt and toFixed are real conversions.                  *)
(***************************************************************************)
EXTENDS Integers, Sequences, FiniteSets, TLC

VARIABLES app, fields, result, pc, frame, runs, fresh

vars == <<app, fields, result, pc, frame, runs, fresh>>

(***************************************************************************)
(* Numbers                                                                 *)
(***************************************************************************)

Pow10(n) == <<1, 10, 100, 1000, 10000, 100000, 1000000, 10000000,
              100000000, 1000000000>>[n + 1]

AbsI(i) == IF i < 0 THEN -i ELSE i

SgnI(i) == IF i < 0 THEN -1 ELSE IF i > 0 THEN 1 ELSE 0

NDigits(a) ==
  IF a < 10 THEN 1 ELSE IF a < 100 THEN 2 ELSE IF a < 1000 THEN 3
  ELSE IF a < 10000 THEN 4 ELSE IF a < 100000 THEN 5
  ELSE IF a < 1000000 THEN 6 ELSE IF a < 10000000 THEN 7
  ELSE IF a < 100000000 THEN 8 ELSE IF a < 1000000000 THEN 9 ELSE 10

NaN == [k |-> "nan", m |-> 0, e |-> 0]

Inf(s) == [k |-> "inf", m |-> s, e |-> 0]

Zero == [k |-> "num", m |-> 0, e |-> 0]

IsNaN(x) == x.k = "nan"

IsFinite(x) == x.k = "num"

\* a / p rounded half up, for a >= 0
RoundDiv(a, p) == (a \div p) + (IF 2 * (a % p) >= p THEN 1 ELSE 0)

\* The number m * 10^e of an 8-digit m; beyond the range of a double the value
\* becomes an infinity or zero.
Pack(m, e) ==
  IF e + 7 > 308 THEN Inf(SgnI(m))
  ELSE IF e + 7 < -323 THEN Zero
  ELSE [k |-> "num", m |-> m, e |-> e]

\* s * q * 10^e, where rounding may have carried q to 10^8
Carry(s, q, e) ==
  IF q = 100000000 THEN Pack(s * 10000000, e + 1) ELSE Pack(s * q, e)

\* s * a * 10^e of the d-digit a, rounded to 8 digits
Round8(s, a, e, d) ==
  IF d > 8 THEN Carry(s, RoundDiv(a, Pow10(d - 8)), e + (d - 8))
  ELSE Pack(s * a * Pow10(8 - d), e + (d - 8))

\* m * 10^e rounded to 8 significant digits (half away from zero)
Norm(m, e) ==
  IF m = 0 THEN Zero ELSE Round8(SgnI(m), AbsI(m), e, NDigits(AbsI(m)))

\* The decimal literal m * 10^e, and the integer i.
Dec(m, e) == Norm(m, e)

Num(i) == Norm(i, 0)

Neg(x) ==
  IF x.k = "nan" THEN NaN
  ELSE IF x.k = "inf" THEN Inf(-x.m)
  ELSE [x EXCEPT !.m = -x.m]

\* hi + lo for hi.e >= lo.e: lo is aligned to one digit below hi's last.
AddAligned(hi, lo, d) ==
  IF d > 9 THEN hi
  ELSE Norm(hi.m * 10 + SgnI(lo.m) * ((AbsI(lo.m) * 10) \div Pow10(d)), hi.e - 1)

\* x + y when one of them is NaN, an infinity or zero
AddSpecial(x, y) ==
  IF x.k = "nan" \/ y.k = "nan" THEN NaN
  ELSE IF x.k = "inf" THEN (IF y.k = "inf" /\ y.m # x.m THEN NaN ELSE x)
  ELSE IF y.k = "inf" THEN y
  ELSE IF x.m = 0 THEN y
  ELSE x

Add(x, y) ==
  IF x.k # "num" \/ y.k # "num" \/ x.m = 0 \/ y.m = 0 THEN AddSpecial(x, y)
  ELSE IF x.e >= y.e THEN AddAligned(x, y, x.e - y.e)
  ELSE AddAligned(y, x, y.e - x.e)

Sub(x, y) == Add(x, Neg(y))

\* s * (hi * 10^4 + lo) * 10^(e - 4), the 12 leading digits of a product,
\* rounded to 8 digits.
MulRound(s, hi, lo, e) ==
  IF hi < 10000000
  THEN Norm(s * (hi * 100 + (lo \div 100)), e + 6)
  ELSE Norm(s * (hi * 10 + (lo \div 1000)), e + 7)

\* The product of two 8-digit mantissas from its four 4-digit partial products.
MulParts(s, a1, a0, b1, b0, e) ==
  MulRound(s,
           a1 * b1 + ((a1 * b0 + a0 * b1 + ((a0 * b0) \div 10000)) \div 10000),
           (a1 * b0 + a0 * b1 + ((a0 * b0) \div 10000)) % 10000,
           e)

\* x * y when one of them is NaN, an infinity or zero
MulSpecial(x, y) ==
  IF x.k = "nan" \/ y.k = "nan" THEN NaN
  ELSE IF x.k = "inf" \/ y.k = "inf"
       THEN (IF x.m = 0 \/ y.m = 0 THEN NaN ELSE Inf(SgnI(x.m) * SgnI(y.m)))
  ELSE Zero

Mul(x, y) ==
  IF x.k # "num" \/ y.k # "num" \/ x.m = 0 \/ y.m = 0 THEN MulSpecial(x, y)
  ELSE MulParts(SgnI(x.m) * SgnI(y.m),
                AbsI(x.m) \div 10000, AbsI(x.m) % 10000,
                AbsI(y.m) \div 10000, AbsI(y.m) % 10000, x.e + y.e)

\* The next quotient digit of r / b and the remainder it leaves (long division).
Digit(r, b) == (r * 10) \div b

Rem(r, b) == (r * 10) % b

RECURSIVE DivDigits(_, _, _, _)
\* 2n further quotient digits of r / b, appended to q, two at a time.
DivDigits(r, b, n, q) ==
  IF n = 0 \/ r = 0 THEN q * Pow10(2 * n)
  ELSE DivDigits(Rem(Rem(r, b), b), b, n - 1,
                 q * 100 + Digit(r, b) * 10 + Digit(Rem(r, b), b))

\* s * a / b * 10^e for mantissas a and b: nine quotient digits, rounded to 8.
DivMant(s, a, b, e) ==
  IF a < b
  THEN Norm(s * DivDigits(Rem(a, b), b, 4, Digit(a, b)), e - 9)
  ELSE Norm(s * DivDigits(a % b, b, 4, a \div b), e - 8)

\* x / y when one of them is NaN, an infinity or zero
DivSpecial(x, y) ==
  IF x.k = "nan" \/ y.k = "nan" THEN NaN
  ELSE IF x.k = "inf"
       THEN (IF y.k = "inf" THEN NaN
             ELSE Inf(x.m * (IF y.m < 0 THEN -1 ELSE 1)))
  ELSE IF y.k = "inf" THEN Zero
  ELSE IF y.m = 0 THEN (IF x.m = 0 THEN NaN ELSE Inf(SgnI(x.m)))
  ELSE Zero

Div(x, y) ==
  IF x.k # "num" \/ y.k # "num" \/ x.m = 0 \/ y.m = 0 THEN DivSpecial(x, y)
  ELSE DivMant(SgnI(x.m) * SgnI(y.m), AbsI(x.m), AbsI(y.m), x.e - y.e)

Lt(x, y) ==
  IF x.k = "nan" \/ y.k = "nan" THEN FALSE
  ELSE IF x.k = "inf" THEN x.m < 0 /\ ~(y.k = "inf" /\ y.m < 0)
  ELSE IF y.k = "inf" THEN y.m > 0
  ELSE IF SgnI(x.m) # SgnI(y.m) THEN SgnI(x.m) < SgnI(y.m)
  ELSE IF x.m = 0 THEN FALSE
  ELSE IF x.m > 0 THEN x.e < y.e \/ (x.e = y.e /\ x.m < y.m)
  ELSE x.e > y.e \/ (x.e = y.e /\ x.m < y.m)

Eq(x, y) == x.k # "nan" /\ y.k # "nan" /\ x = y

Le(x, y) == Lt(x, y) \/ Eq(x, y)

Gt(x, y) == Lt(y, x)

Ge(x, y) == Le(y, x)

\* Math.abs, Math.min, Math.sign
Abs(x) == IF x.k = "nan" THEN NaN ELSE [x EXCEPT !.m = AbsI(x.m)]

Min(x, y) ==
  IF x.k = "nan" \/ y.k = "nan" THEN NaN ELSE IF Lt(y, x) THEN y ELSE x

Sign(x) == IF x.k = "nan" THEN NaN ELSE Num(SgnI(x.m))

\* JavaScript truthiness of a number: 0 and NaN are falsy.
Truthy(x) == ~(x.k = "nan") /\ ~(x.k = "num" /\ x.m = 0)

\* The value of a finite number of magnitude below 10^9, truncated towards zero,
\* as an integer of the model.
IntTrunc(x) ==
  IF x.e >= 0 THEN x.m * Pow10(x.e)
  ELSE IF -x.e > 9 THEN 0
  ELSE SgnI(x.m) * (AbsI(x.m) \div Pow10(-x.e))

\* x rounded down, given its truncation t
FloorFrom(x, t) ==
  IF Num(t) = x THEN x ELSE IF x.m < 0 THEN Num(t - 1) ELSE Num(t)

\* x rounded up, given its truncation t
CeilFrom(x, t) ==
  IF Num(t) = x THEN x ELSE IF x.m > 0 THEN Num(t + 1) ELSE Num(t)

\* Math.floor, Math.ceil
Floor(x) == IF x.k # "num" \/ x.e >= 0 THEN x ELSE FloorFrom(x, IntTrunc(x))

Ceil(x) == IF x.k # "num" \/ x.e >= 0 THEN x ELSE CeilFrom(x, IntTrunc(x))

One == Num(1)

Ln10 == Dec(23025851, -7)

Ln2 == Dec(69314718, -8)

Pi == Dec(31415927, -7)

\* 1 + (r / n) acc: one step of the nested Taylor series of e^r
ExpTerm(r, n, acc) == Add(One, Div(Mul(r, acc), Num(n)))

RECURSIVE ExpSeries(_, _, _)
\* 1 + r/1 (1 + r/2 (1 + ... (1 + r/n acc))) for even n, two terms at a time.
ExpSeries(r, n, acc) ==
  IF n = 0 \/ ~IsFinite(acc) THEN acc
  ELSE ExpSeries(r, n - 2, ExpTerm(r, n - 1, ExpTerm(r, n, acc)))

\* t * 10^k
ExpScaled(t, k) == IF ~IsFinite(t) THEN t ELSE Norm(t.m, t.e + k)

\* 10^k * e^r
ExpSum(r, k) == IF ~IsFinite(r) THEN r ELSE ExpScaled(ExpSeries(r, 14, One), k)

\* e^x = 10^k * e^r with r = x - k ln 10
ExpReduced(x, k) ==
  IF k = 0 THEN ExpSum(x, 0) ELSE ExpSum(Sub(x, Mul(Num(k), Ln10)), k)

\* Math.exp, with k = round(x / ln 10)
Exp(x) ==
  IF x.k # "num"
  THEN (IF x.k = "nan" THEN NaN ELSE IF x.m > 0 THEN x ELSE Zero)
  ELSE IF Gt(x, Num(710)) \/ Lt(x, Num(-746))
       THEN (IF x.m > 0 THEN Inf(1) ELSE Zero)
  ELSE ExpReduced(x, IntTrunc(Floor(Add(Div(x, Ln10), Dec(5, -1)))))

RECURSIVE AtanhSeries(_, _, _)
\* 1 + w/3 + ... + w^n/(2n + 1), nested: acc is the part from w^n on.
AtanhSeries(w, n, acc) ==
  IF n = 0 \/ ~IsFinite(acc) THEN acc
  ELSE AtanhSeries(w, n - 1, Add(Div(One, Num(2 * n - 1)), Mul(w, acc)))

\* The power of two taken out of the mantissa m, so that 0.75 <= u < 1.5.
LogScale(m) ==
  IF m >= 75000000 \/ m < 15000000 THEN 0 ELSE IF m < 30000000 THEN 1
  ELSE IF m < 60000000 THEN 2 ELSE 3

\* ex ln 10 + j ln 2 + 2 z ser, where ser = atanh(z) / z
LogSum(ex, j, z, ser) ==
  IF ~IsFinite(ser) THEN ser
  ELSE Add(Add(Mul(Num(ex), Ln10), Mul(Num(j), Ln2)), Mul(Num(2), Mul(z, ser)))

\* atanh z = z (1 + z^2/3 + z^4/5 + ...)
LogSeries(ex, j, z) ==
  IF ~IsFinite(z) THEN z
  ELSE LogSum(ex, j, z, AtanhSeries(Mul(z, z), 5, Div(One, Num(11))))

\* ln(u * 2^j * 10^ex) = ex ln 10 + j ln 2 + 2 atanh((u - 1) / (u + 1))
LogParts(u, ex, j) ==
  IF ~IsFinite(u) THEN u ELSE LogSeries(ex, j, Div(Sub(u, One), Add(u, One)))

\* Math.log (no cancellation near x = 1: mantissas from 7.5 up count as 0.75..1)
Log(x) ==
  IF x.k # "num" \/ x.m <= 0
  THEN (IF x.k = "num" /\ x.m = 0 THEN Inf(-1)
        ELSE IF x.k = "inf" /\ x.m > 0 THEN x ELSE NaN)
  ELSE LogParts(Div([k |-> "num", m |-> x.m,
                     e |-> IF x.m >= 75000000 THEN -8 ELSE -7],
                    Num(2 ^ LogScale(x.m))),
                IF x.m >= 75000000 THEN x.e + 8 ELSE x.e + 7,
                LogScale(x.m))

\* One step of Newton's iteration for the square root of x
NewtonStep(x, y) == Div(Add(y, Div(x, y)), Num(2))

RECURSIVE Newton(_, _, _)
\* 2n steps of y := (y + x / y) / 2
Newton(x, y, n) ==
  IF n = 0 \/ ~IsFinite(y) THEN y
  ELSE Newton(x, NewtonStep(x, NewtonStep(x, y)), n - 1)

\* Math.sqrt
Sqrt(x) ==
  IF x.k # "num" \/ x.m <= 0
  THEN (IF x.k = "num" /\ x.m = 0 THEN Zero
        ELSE IF x.k = "inf" /\ x.m > 0 THEN x ELSE NaN)
  ELSE Newton(x, Norm(3, (x.e + 7 - ((x.e + 7) % 2)) \div 2), 4)

(***************************************************************************)
(* Text: a string is a sequence of one-character strings.                  *)
(***************************************************************************)

DigitChars == <<"0", "1", "2", "3", "4", "5", "6", "7", "8", "9">>

IsDigit(c) == \E i \in 1..10 : DigitChars[i] = c

DigitVal(c) == (CHOOSE i \in 1..10 : DigitChars[i] = c) - 1

RECURSIVE DigitsOf(_)
\* The decimal digits of the integer n >= 0.
DigitsOf(n) ==
  IF n < 10 THEN <<DigitChars[n + 1]>>
  ELSE DigitsOf(n \div 10) \o <<DigitChars[(n % 10) + 1]>>

Zeros(n) == [i \in 1..n |-> "0"]

\* The digits of a * 10^sh rounded to an integer (sh is the exponent plus the
\* number of decimals asked for).
FixedDigits(a, sh) ==
  IF sh >= 0 THEN DigitsOf(a) \o Zeros(sh)
  ELSE IF sh < -9 THEN <<"0">>
  ELSE DigitsOf(RoundDiv(a, Pow10(-sh)))

\* The decimal point placed d digits from the end of ds.
Point(ds, d) ==
  SubSeq(ds, 1, Len(ds) - d)
  \o (IF d > 0 THEN <<".">> \o SubSeq(ds, Len(ds) - d + 1, Len(ds)) ELSE <<>>)

\* ds padded with leading zeros to at least d + 1 digits.
Pad(ds, d) == IF Len(ds) < d + 1 THEN Zeros(d + 1 - Len(ds)) \o ds ELSE ds

\* Number.prototype.toFixed(d): the digits of x rounded to d decimals.
ToFixed(x, d) ==
  IF x.k = "nan" THEN <<"N", "a", "N">>
  ELSE IF x.k = "inf"
       THEN (IF x.m < 0 THEN <<"-">> ELSE <<>>)
            \o <<"I", "n", "f", "i", "n", "i", "t", "y">>
  ELSE (IF x.m < 0 THEN <<"-">> ELSE <<>>)
       \o Point(Pad(FixedDigits(AbsI(x.m), x.e + d), d), d)

RECURSIVE Shortest(_, _)
\* The mantissa a and exponent e without trailing zeros.
Shortest(a, e) ==
  IF a % 10 = 0 /\ a # 0 THEN Shortest(a \div 10, e + 1) ELSE <<a, e>>

ShortestText(p) ==
  IF p[2] >= 0 THEN DigitsOf(p[1]) \o Zeros(p[2])
  ELSE Point(Pad(DigitsOf(p[1]), -p[2]), -p[2])

\* The text a number takes in a template literal, `${x}`: the shortest decimal
\* that names it (magnitudes between 1e-6 and 1e21, which print without an
\* exponent).
NumberToString(x) ==
  IF x.k = "nan" THEN <<"N", "a", "N">>
  ELSE IF x.k = "inf"
       THEN (IF x.m < 0 THEN <<"-">> ELSE <<>>)
            \o <<"I", "n", "f", "i", "n", "i", "t", "y">>
  ELSE (IF x.m < 0 THEN <<"-">> ELSE <<>>)
       \o ShortestText(Shortest(AbsI(x.m), x.e))

RECURSIVE DigitRun(_, _)
\* The index after the run of digits of s that starts at i.
DigitRun(s, i) ==
  IF i <= Len(s) /\ IsDigit(s[i]) THEN DigitRun(s, i + 1) ELSE i

RECURSIVE AccDigits(_, _, _, _)
\* The digits ds[i..] appended to the mantissa m, which keeps nine digits; sh
\* counts the digits dropped.
AccDigits(ds, i, m, sh) ==
  IF i > Len(ds) THEN <<m, sh>>
  ELSE IF m < 100000000 THEN AccDigits(ds, i + 1, m * 10 + DigitVal(ds[i]), sh)
  ELSE AccDigits(ds, i + 1, m, sh + 1)

HasSign(s, i) == i <= Len(s) /\ s[i] \in {"+", "-"}

\* The sign at s[i]: -1 for "-", else 1.
SignAt(s, i) == IF HasSign(s, i) /\ s[i] = "-" THEN -1 ELSE 1

\* The index after an optional sign at s[i].
AfterSign(s, i) == IF HasSign(s, i) THEN i + 1 ELSE i

\* sg times the value of the exponent digits ds, capped beyond the range of a
\* double; no digits, no exponent.
ExpValue(sg, ds) ==
  IF ds = <<>> THEN 0
  ELSE IF AccDigits(ds, 1, 0, 0)[1] > 400 THEN sg * 400
  ELSE sg * AccDigits(ds, 1, 0, 0)[1]

\* The exponent part of s at index i ("e", optional sign, digits), or 0.
ExpPart(s, i) ==
  IF i <= Len(s) /\ s[i] \in {"e", "E"}
  THEN ExpValue(SignAt(s, i + 1),
                SubSeq(s, AfterSign(s, i + 1), DigitRun(s, AfterSign(s, i + 1)) - 1))
  ELSE 0

\* sg * (digits acc, nf of them after the point) * 10^ex
Literal(sg, acc, nf, ex) == Norm(sg * acc[1], acc[2] - nf + ex)

\* The literal with integer digits ip, fraction digits fp and what follows at i.
ParseParts(s, sg, ip, fp, i) ==
  IF Len(ip) + Len(fp) = 0 THEN NaN
  ELSE Literal(sg, AccDigits(ip \o fp, 1, 0, 0), Len(fp), ExpPart(s, i))

\* The literal whose integer digits are s[i0 .. i1 - 1].
ParseFraction(s, sg, i0, i1) ==
  IF i1 <= Len(s) /\ s[i1] = "."
  THEN ParseParts(s, sg, SubSeq(s, i0, i1 - 1),
                  SubSeq(s, i1 + 1, DigitRun(s, i1 + 1) - 1), DigitRun(s, i1 + 1))
  ELSE ParseParts(s, sg, SubSeq(s, i0, i1 - 1), <<>>, i1)

\* parseFloat: the longest prefix of s that is a decimal literal (sign, digits,
\* fraction, exponent); NaN when there is none.
ParseFloat(s) ==
  ParseFraction(s, SignAt(s, 1), AfterSign(s, 1), DigitRun(s, AfterSign(s, 1)))

\* The integer of sign sg and digits ds; NaN when there are none.
IntLiteral(sg, ds) ==
  IF ds = <<>> THEN NaN ELSE Literal(sg, AccDigits(ds, 1, 0, 0), 0, 0)

\* parseInt (radix 10): the sign and the leading digits of s; NaN when none.
ParseInt(s) ==
  IntLiteral(SignAt(s, 1),
             SubSeq(s, AfterSign(s, 1), DigitRun(s, AfterSign(s, 1)) - 1))

(***************************************************************************)
(* What the components share                                               *)
(***************************************************************************)

\* Clicks on calculate in a row, with no edit in between, that are followed.
MaxRuns == 2

\* null, as in useState<Result | null>(null)
Null == [null |-> TRUE]

\* undefined: an optional property left out, a find that found nothing
Undefined == [undefined |-> TRUE]

\* !s for the text of a field: the empty string is the only falsy string.
Empty(s) == s = <<>>

\* A component right after it is mounted: every useState at its initial value.
Mounted(a, f) ==
  /\ app = a
  /\ fields = f
  /\ result = Null
  /\ pc = "idle"
  /\ frame = Null
  /\ runs = 0
  /\ fresh = FALSE

\* Component a takes the place of the one on screen: a fresh mount.
Activated(a, f) ==
  /\ app # a
  /\ app' = a
  /\ fields' = f
  /\ result' = Null
  /\ pc' = "idle"
  /\ frame' = Null
  /\ runs' = 0
  /\ fresh' = FALSE

\* onChange of one input or select of component a: the slot takes the text typed
\* or the option chosen (one of cands[f]).
Edit(a, cands) ==
  /\ app = a
  /\ pc = "idle"
  /\ \E f \in DOMAIN cands : \E v \in cands[f] :
       /\ v # fields[f]
       /\ fields' = [fields EXCEPT ![f] = v]
  /\ runs' = 0
  /\ fresh' = FALSE
  /\ UNCHANGED <<app, result, pc, frame>>

\* A change of the slots of component a made by a handler other than a plain
\* onChange: the slots become f.
Changed(a, f) ==
  /\ app = a
  /\ pc = "idle"
  /\ fields' = f
  /\ runs' = 0
  /\ fresh' = FALSE
  /\ UNCHANGED <<app, result, pc, frame>>

\* A click on the calculate button of component a, the handler not yet run.
\* Clicks in a row without an edit in between are followed up to MaxRuns.
Clicked(a) == app = a /\ pc = "idle" /\ runs < MaxRuns

\* A handler that on its early return also drops what was stored.
SkippedClearing ==
  /\ runs' = runs + 1
  /\ result' = Null
  /\ pc' = "idle"
  /\ frame' = Null
  /\ UNCHANGED <<app, fields, fresh>>

\* A click handler that returned before setResult.
Skipped ==
  /\ runs' = runs + 1
  /\ pc' = "idle"
  /\ frame' = Null
  /\ UNCHANGED <<app, fields, result, fresh>>

\* A setResult that looks at what is stored: a result equal to the stored one
\* is taken off the screen.
StoredToggling(r) ==
  /\ runs' = runs + 1
  /\ result' = IF result = r THEN Null ELSE r
  /\ fresh' = TRUE
  /\ pc' = "idle"
  /\ frame' = Null
  /\ UNCHANGED <<app, fields>>

\* A click handler that ran to setResult(r).
Stored(r) ==
  /\ runs' = runs + 1
  /\ result' = r
  /\ fresh' = TRUE
  /\ pc' = "idle"
  /\ frame' = Null
  /\ UNCHANGED <<app, fields>>

(***************************************************************************)
(* CapacitorCalculator.tsx                                                 *)
(***************************************************************************)

\* A tolerance band of 4% below instead of 6%.
ToleranceNarrow(capacitance) ==
  [min |-> Mul(capacitance, Dec(96, -2)), max |-> Mul(capacitance, Dec(106, -2))]

\* capacitance = (2653 * current) / volts
Capacitance(current, volts) == Div(Mul(Num(2653), current), volts)

Tolerance(capacitance) ==
  [min |-> Mul(capacitance, Dec(94, -2)), max |-> Mul(capacitance, Dec(106, -2))]

Deviation(capacitance, value) ==
  Mul(Div(Sub(capacitance, value), value), Num(100))

\* ratedComparison after the if (ratedComparison) block; undefined when the
\* rated box is empty.
RatedComparison(capacitance, rated) ==
  IF Empty(rated) THEN Undefined
  ELSE [value            |-> ParseFloat(rated),
        withinRange      |->
          Le(Abs(Deviation(capacitance, ParseFloat(rated))), Num(6)),
        percentDeviation |-> Deviation(capacitance, ParseFloat(rated))]

CapacitorResult(capacitance, rated) ==
  [capacitance     |-> capacitance,
   tolerance       |-> Tolerance(capacitance),
   ratedComparison |-> RatedComparison(capacitance, rated)]

calculateCapacitance ==
  /\ Clicked("capacitor")
  /\ IF Empty(fields.startWinding) \/ Empty(fields.voltage)
     THEN Skipped
     ELSE Stored(CapacitorResult(Capacitance(ParseFloat(fields.startWinding),
                                             ParseFloat(fields.voltage)),
                                 fields.ratedCapacitance))

\* The two result lines of the panel: toFixed(1) of each figure.
CapacitorDisplay(r) ==
  [capacitance |-> ToFixed(r.capacitance, 1),
   min         |-> ToFixed(r.tolerance.min, 1),
   max         |-> ToFixed(r.tolerance.max, 1)]

\* The slots of the component as useState initialises them.
CapacitorFields ==
  [startWinding |-> <<>>, voltage |-> <<>>, ratedCapacitance |-> <<>>]

NextCapacitor ==
  \/ Edit("capacitor",
          [startWinding     |-> {<<>>, <<"5">>, <<"4", ".", "5">>, <<"0">>},
           voltage          |-> {<<>>, <<"2", "3", "0">>, <<"0">>},
           ratedCapacitance |-> {<<>>, <<"5", "5">>, <<"6", "0">>}])
  \/ calculateCapacitance

SpecCapacitor == Mounted("capacitor", CapacitorFields) /\ [][NextCapacitor]_vars

\* The same component with rated values on both sides of each end of the
\* range shown for 5 A at 230 V (54.2 - 61.1): 54, 54.3, 55, 61.3 and 62,
\* and the same rated values against 4.5 A (48.8 - 55.0).
NextCapacitorRated ==
  \/ Edit("capacitor",
          [startWinding     |-> {<<"5">>, <<"4", ".", "5">>},
           voltage          |-> {<<"2", "3", "0">>},
           ratedCapacitance |-> {<<>>, <<"5", "4">>, <<"5", "4", ".", "3">>,
                                 <<"5", "5">>, <<"6", "1", ".", "3">>,
                                 <<"6", "2">>}])
  \/ calculateCapacitance

SpecCapacitorRated ==
  Mounted("capacitor", CapacitorFields) /\ [][NextCapacitorRated]_vars

(***************************************************************************)
(* MoldRiskCalculator.tsx                                                  *)
(***************************************************************************)

WATER_VAPOR_CONSTANT == Dec(17625, -3)

WATER_VAPOR_TEMP_CONSTANT == Dec(24304, -2)

\* (WATER_VAPOR_TEMP_CONSTANT * alpha) / (WATER_VAPOR_CONSTANT - alpha)
MoldDewPointFrom(alpha) ==
  Div(Mul(WATER_VAPOR_TEMP_CONSTANT, alpha), Sub(WATER_VAPOR_CONSTANT, alpha))

MoldDewPoint(t, rh) ==
  MoldDewPointFrom(Add(Log(Div(rh, Num(100))),
                       Div(Mul(WATER_VAPOR_CONSTANT, t),
                           Add(WATER_VAPOR_TEMP_CONSTANT, t))))

MoldVaporPressure(t) ==
  Mul(Dec(611, -2),
      Exp(Div(Mul(WATER_VAPOR_CONSTANT, t), Add(WATER_VAPOR_TEMP_CONSTANT, t))))

MoldAbsoluteHumidity(t, rh) ==
  Div(Mul(Mul(Dec(216679, -5), rh), MoldVaporPressure(t)),
      Add(Dec(27315, -2), t))

\* The tiers with their lower ends excluded: 60 is still Low, 70 still Moderate.
RiskLevelExclusive(t, rh) ==
  IF Le(rh, Num(60)) THEN [level |-> "Low", days |-> Null]
  ELSE IF Le(rh, Num(70)) THEN [level |-> "Moderate", days |-> Num(30)]
  ELSE IF Le(rh, Num(80)) THEN [level |-> "High", days |-> Num(14)]
  ELSE [level |-> "Severe", days |-> Num(7)]

calculateRiskLevel(t, rh) ==
  IF Lt(rh, Num(60)) THEN [level |-> "Low", days |-> Null]
  ELSE IF Lt(rh, Num(70)) THEN [level |-> "Moderate", days |-> Num(30)]
  ELSE IF Lt(rh, Num(80)) THEN [level |-> "High", days |-> Num(14)]
  ELSE [level |-> "Severe", days |-> Num(7)]

getRecommendations(t, rh, dewPoint, riskLevel) ==
  (IF Gt(rh, Num(60))
   THEN <<"Reduce indoor relative humidity below 60% using dehumidification">>
   ELSE <<>>)
  \o (IF Lt(Sub(t, dewPoint), Num(4))
      THEN <<"Increase air temperature or improve insulation to prevent condensation">>
      ELSE <<>>)
  \o (IF riskLevel # "Low"
      THEN <<"Improve ventilation to reduce moisture accumulation",
             "Inspect for and repair any water leaks or intrusion">>
      ELSE <<>>)
  \o (IF Gt(rh, Num(70))
      THEN <<"Consider using continuous dehumidification">>
      ELSE <<>>)

\* The object passed to setResult, from the handler's four consts.
MoldResultFrom(temp, rh, dewPoint, risk) ==
  [dewPoint         |-> dewPoint,
   vaporPressure    |-> MoldVaporPressure(temp),
   absoluteHumidity |-> MoldAbsoluteHumidity(temp, rh),
   riskLevel        |-> risk.level,
   daysToMold       |-> risk.days,
   recommendations  |-> getRecommendations(temp, rh, dewPoint, risk.level)]

MoldResult(temp, rh) ==
  MoldResultFrom(temp, rh, MoldDewPoint(temp, rh), calculateRiskLevel(temp, rh))

calculateMoldRisk ==
  /\ Clicked("mold")
  /\ IF Empty(fields.dryBulb) \/ Empty(fields.relativeHumidity)
     THEN Skipped
     ELSE Stored(MoldResult(ParseFloat(fields.dryBulb),
                            ParseFloat(fields.relativeHumidity)))

\* The slots of the component as useState initialises them.
MoldFields ==
  [dryBulb |-> <<>>, relativeHumidity |-> <<>>]

NextMold ==
  \/ Edit("mold",
          [dryBulb          |-> {<<>>, <<"7", "5">>, <<"6", "8">>},
           relativeHumidity |-> {<<>>, <<"5", "5">>, <<"5", "9", ".", "9">>,
                                 <<"6", "0">>, <<"6", "0", ".", "1">>,
                                 <<"6", "9", ".", "9">>, <<"7", "0">>,
                                 <<"7", "5">>, <<"7", "9", ".", "9">>,
                                 <<"8", "0">>, <<"1", "0", "0">>, <<"0">>}])
  \/ calculateMoldRisk

SpecMold == Mounted("mold", MoldFields) /\ [][NextMold]_vars

(***************************************************************************)
(* System Performance Calculator.tsx, DehumidifierCalculator               *)
(***************************************************************************)

BTU_TO_PINTS == Dec(833, -4)

SAFETY_FACTOR == Dec(12, -1)

STANDARD_SIZES == <<20, 30, 35, 50, 70, 90, 120, 150, 180, 250>>

RECURSIVE FindSizeAfter(_, _, _)
\* The search started one entry late: the entry at index i is never looked at.
FindSizeAfter(sizes, required, i) ==
  IF i + 1 > Len(sizes) THEN Num(sizes[Len(sizes)])
  ELSE IF Ge(Num(sizes[i + 1]), required) THEN Num(sizes[i + 1])
  ELSE FindSizeAfter(sizes, required, i + 1)

RECURSIVE FindSize(_, _, _)
\* sizes.find(size => size >= required) || sizes[sizes.length - 1], the search
\* from index i on: with no entry large enough find gives undefined and the
\* largest entry is taken.
FindSize(sizes, required, i) ==
  IF i > Len(sizes) THEN Num(sizes[Len(sizes)])
  ELSE IF Ge(Num(sizes[i]), required) THEN Num(sizes[i])
  ELSE FindSize(sizes, required, i + 1)

\* The template literal `${recommendedSize} PPD`
SizeText(size) == DigitsOf(IntTrunc(size)) \o <<" ", "P", "P", "D">>

\* capacityFactor after the temperature and humidity adjustments
\* The derating with its thresholds taken inclusively: 65, 70 and 60 derate.
CapacityFactorInclusive(temp, rh) ==
  Mul(IF Le(temp, Num(65)) THEN Mul(One, Dec(7, -1))
      ELSE IF Le(temp, Num(70)) THEN Mul(One, Dec(85, -2)) ELSE One,
      IF Le(rh, Num(60)) THEN Dec(8, -1) ELSE One)

CapacityFactor(temp, rh) ==
  Mul(IF Lt(temp, Num(65)) THEN Mul(One, Dec(7, -1))
      ELSE IF Lt(temp, Num(70)) THEN Mul(One, Dec(85, -2)) ELSE One,
      IF Lt(rh, Num(60)) THEN Dec(8, -1) ELSE One)

DehumidifierWarnings(temp, rh, requiredCapacity, recommendedSize) ==
  (IF Lt(temp, Num(65))
   THEN <<"Low temperature will reduce dehumidifier efficiency">>
   ELSE <<>>)
  \o (IF Lt(rh, Num(60))
      THEN <<"Low relative humidity will reduce moisture removal rate">>
      ELSE <<>>)
  \o (IF Lt(recommendedSize, requiredCapacity)
      THEN <<"Required capacity exceeds largest standard residential unit - consider multiple units or a commercial system">>
      ELSE <<>>)
  \o (IF Gt(rh, Num(65))
      THEN <<"High relative humidity may require additional run time or larger unit">>
      ELSE <<>>)

\* The object passed to setResult.
DehumidifierResultFrom(temp, rh, pintsPerDay, requiredCapacity, recommendedSize) ==
  [requiredCapacity |-> requiredCapacity,
   pintsPerDay      |-> pintsPerDay,
   recommendedSize  |-> SizeText(recommendedSize),
   warnings         |-> DehumidifierWarnings(temp, rh, requiredCapacity,
                                             recommendedSize)]

DehumidifierSized(temp, rh, pintsPerDay, requiredCapacity) ==
  DehumidifierResultFrom(temp, rh, pintsPerDay, requiredCapacity,
                         FindSize(STANDARD_SIZES, requiredCapacity, 1))

\* requiredCapacity = (pintsPerDay / capacityFactor) * SAFETY_FACTOR
DehumidifierLoad(temp, rh, pintsPerDay) ==
  DehumidifierSized(temp, rh, pintsPerDay,
                    Mul(Div(pintsPerDay, CapacityFactor(temp, rh)), SAFETY_FACTOR))

DehumidifierResult(latentBTU, temp, rh) ==
  DehumidifierLoad(temp, rh, Mul(Mul(latentBTU, BTU_TO_PINTS), Num(24)))

calculateDehumidifierSize ==
  /\ Clicked("dehumidifier")
  /\ IF Empty(fields.latentLoad) \/ Empty(fields.indoorTemp) \/ Empty(fields.indoorRH)
     THEN Skipped
     ELSE Stored(DehumidifierResult(ParseFloat(fields.latentLoad),
                                    ParseFloat(fields.indoorTemp),
                                    ParseFloat(fields.indoorRH)))

\* The slots of the component as useState initialises them.
DehumidifierFields ==
  [latentLoad |-> <<>>, indoorTemp |-> <<>>, indoorRH |-> <<>>]

NextDehumidifier ==
  \/ Edit("dehumidifier",
          [latentLoad |-> {<<>>, <<"5">>, <<"2", "0">>, <<"6", "0">>,
                           <<"1", "0", "0">>, <<"1", "0", "0", "0", "0">>},
           indoorTemp |-> {<<>>, <<"7", "5">>, <<"6", "8">>, <<"6", "0">>},
           indoorRH   |-> {<<>>, <<"6", "5">>, <<"5", "5">>}])
  \/ calculateDehumidifierSize

SpecDehumidifier == Mounted("dehumidifier", DehumidifierFields) /\ [][NextDehumidifier]_vars

\* The same component with temperatures and humidities on and around the
\* thresholds of the derating rules.
NextDehumidifierDerating ==
  \/ Edit("dehumidifier",
          [latentLoad |-> {<<>>, <<"1", "0", "0">>},
           indoorTemp |-> {<<>>, <<"7", "5">>, <<"7", "0">>, <<"6", "8">>,
                           <<"6", "5">>, <<"6", "0">>},
           indoorRH   |-> {<<>>, <<"7", "0">>, <<"6", "5">>, <<"6", "0">>,
                           <<"5", "5">>}])
  \/ calculateDehumidifierSize

SpecDehumidifierDerating == Mounted("dehumidifier", DehumidifierFields) /\ [][NextDehumidifierDerating]_vars

(***************************************************************************)
(* Psychrometric functions shared in form by the two psychrometric         *)
(* components                                                              *)
(***************************************************************************)

ATMOSPHERIC_PRESSURE == Dec(14696, -3)

AIR_DENSITY == Dec(75, -3)

SPECIFIC_HEAT == Dec(24, -2)

LATENT_HEAT == Num(1061)

\* (t - 32) * 5/9
Celsius(t) == Div(Mul(Sub(t, Num(32)), Num(5)), Num(9))

\* (c * 9/5) + 32
Fahrenheit(c) ==
  IF c.k = "nan" THEN NaN ELSE Add(Div(Mul(c, Num(9)), Num(5)), Num(32))

\* The humidity ratio of the wet-bulb relation, pwsWb the saturation pressure
\* at the wet-bulb temperature.
WetBulbRatio(db, wb, pwsWb) ==
  IF pwsWb.k = "nan" THEN NaN
  ELSE Div(Sub(Mul(Sub(Num(1093), Mul(Dec(556, -3), wb)), pwsWb),
               Mul(Mul(Dec(24, -2), Sub(db, wb)), ATMOSPHERIC_PRESSURE)),
           Mul(Sub(Add(Num(1093), Mul(Dec(444, -3), db)), wb),
               ATMOSPHERIC_PRESSURE))

\* pw = (w * ATMOSPHERIC_PRESSURE) / (0.622 + w); (pw / pwsDb) * 100
RHFromRatio(w, pwsDb) ==
  IF w.k = "nan" \/ pwsDb.k = "nan" THEN NaN
  ELSE Mul(Div(Div(Mul(w, ATMOSPHERIC_PRESSURE), Add(Dec(622, -3), w)), pwsDb),
           Num(100))

\* alpha = Math.log(rh/100) + (17.625 * celsius) / (243.04 + celsius)
DewPointAlpha(c, rh) ==
  IF c.k = "nan" \/ rh.k = "nan" THEN NaN
  ELSE Add(Log(Div(rh, Num(100))),
           Div(Mul(WATER_VAPOR_CONSTANT, c), Add(WATER_VAPOR_TEMP_CONSTANT, c)))

\* dewPointC = (243.04 * alpha) / (17.625 - alpha), returned in Fahrenheit
DewPointFrom(alpha) ==
  IF alpha.k = "nan" THEN NaN
  ELSE Fahrenheit(Div(Mul(WATER_VAPOR_TEMP_CONSTANT, alpha),
                      Sub(WATER_VAPOR_CONSTANT, alpha)))

\* One pass of the wet-bulb loop with the error it computed:
\* wb += error / 100; iteration++
Refined(f, error) ==
  [f EXCEPT !.error = error,
            !.wb = Add(f.wb, Div(error, Num(100))),
            !.iteration = f.iteration + 1]

\* error = (db - wb) - ((wSat - w) * 1093)
WetBulbError(db, wb, w, wSat) ==
  IF wSat.k = "nan" THEN NaN
  ELSE Sub(Sub(db, wb), Mul(Sub(wSat, w), Num(1093)))

\* calculateProperties calls calculateWetBulb(db, rh) for the air state named
\* by side.  The frame holds the local variables on entry: wb = db, error = 1
\* and no pass made; q is the quantity the loop compares against (the humidity
\* ratio or the vapour pressure of the air), done the air state already solved.
EnterWetBulb(side, db, rh, q, done) ==
  /\ pc' = side
  /\ frame' = [db |-> db, rh |-> rh, q |-> q, wb |-> db, error |-> One,
               iteration |-> 0, entering |-> done]
  /\ UNCHANGED <<app, fields, result, runs, fresh>>

PsychrometricFields ==
  [systemSize |-> <<>>, climateZone |-> "", airflow |-> <<>>,
   enteringDryBulb |-> <<>>, enteringHumidity |-> <<>>,
   enteringHumidityType |-> "rh",
   leavingDryBulb |-> <<>>, leavingHumidity |-> <<>>,
   leavingHumidityType |-> "rh"]

(***************************************************************************)
(* PsychrometricCalculator of part_001                                     *)
(***************************************************************************)

IterationCap == 100

\* 0.6108 * Math.exp((17.27 * celsius) / (celsius + 237.3))
P1_SaturationAt(c) ==
  IF c.k = "nan" THEN NaN
  ELSE Mul(Dec(6108, -4),
           Exp(Div(Mul(Dec(1727, -2), c), Add(c, Dec(2373, -1)))))

P1_calculateSaturationPressure(t) == P1_SaturationAt(Celsius(t))

\* 0.622 * pw / (101.325 - pw)
P1_RatioFrom(pw) ==
  IF pw.k = "nan" THEN NaN
  ELSE Div(Mul(Dec(622, -3), pw), Sub(Dec(101325, -3), pw))

P1_calculateHumidityRatio(db, rh) ==
  P1_RatioFrom(Mul(Div(rh, Num(100)), P1_calculateSaturationPressure(db)))

\* 0.24 * db + w * (1061 + 0.444 * db)
P1_calculateEnthalpy(db, w) ==
  IF w.k = "nan" THEN NaN
  ELSE Add(Mul(Dec(24, -2), db), Mul(w, Add(Num(1061), Mul(Dec(444, -3), db))))

P1_calculateDewPoint(db, rh) == DewPointFrom(DewPointAlpha(Celsius(db), rh))

P1_calculateRHFromWetBulb(db, wb) ==
  RHFromRatio(WetBulbRatio(db, wb, P1_calculateSaturationPressure(wb)),
              P1_calculateSaturationPressure(db))

\* targetDeltaT = (tons * 12000 * 0.75) / (1.08 * (tons * cfmPerTon)), with
\* cfmPerTon = CLIMATE_ZONES[climateZone]?.cfmPerTon || 400
P1_calculateTargetTemperature(tons, enteringTemp, climateZone) ==
  Sub(enteringTemp,
      Div(Mul(Mul(tons, Num(12000)), Dec(75, -2)),
          Mul(Dec(108, -2),
              Mul(tons, IF climateZone = "hot-humid" THEN Num(350)
                        ELSE IF climateZone = "dry" THEN Num(450)
                        ELSE Num(400)))))

\* The relative humidity of one air state from the indicator chosen.
P1_RelativeHumidity(type, db, humidity) ==
  IF type = "rh" THEN Min(humidity, Num(100))
  ELSE IF type = "wb" THEN P1_calculateRHFromWetBulb(db, humidity)
  ELSE Min(Mul(Div(P1_calculateSaturationPressure(humidity),
                   P1_calculateSaturationPressure(db)), Num(100)),
           Num(100))

\* The loop condition without its cap.
P1_ContinueUncapped(f) == Gt(Abs(f.error), Dec(1, -2))

\* while (Math.abs(error) > 0.01 && iteration < 100)
P1_Continue(f) == Gt(Abs(f.error), Dec(1, -2)) /\ f.iteration < IterationCap

\* The capacities with the latent heat taken to be the whole of the total.
P1_CapacityAllLatent(r, massAirflow, sensibleBtuh, totalBtuh) ==
  [r EXCEPT !.massAirflow = massAirflow,
            !.sensibleBtuh = sensibleBtuh,
            !.totalBtuh = totalBtuh,
            !.latentBtuh = totalBtuh,
            !.sensibleHeatRatio = Div(sensibleBtuh, totalBtuh),
            !.condensationRate =
               Mul(massAirflow,
                   Sub(r.enteringHumidityRatio, r.leavingHumidityRatio))]

\* The capacities with the division guarded: a ratio of 0 when no heat is
\* exchanged.
P1_CapacityGuarded(r, massAirflow, sensibleBtuh, totalBtuh) ==
  [r EXCEPT !.massAirflow = massAirflow,
            !.sensibleBtuh = sensibleBtuh,
            !.totalBtuh = totalBtuh,
            !.latentBtuh = Sub(totalBtuh, sensibleBtuh),
            !.sensibleHeatRatio =
               IF Eq(totalBtuh, Zero) THEN Zero
               ELSE Div(sensibleBtuh, totalBtuh),
            !.condensationRate =
               Mul(massAirflow,
                   Sub(r.enteringHumidityRatio, r.leavingHumidityRatio))]

P1_Capacity(r, massAirflow, sensibleBtuh, totalBtuh) ==
  [r EXCEPT !.massAirflow = massAirflow,
            !.sensibleBtuh = sensibleBtuh,
            !.totalBtuh = totalBtuh,
            !.latentBtuh = Sub(totalBtuh, sensibleBtuh),
            !.sensibleHeatRatio = Div(sensibleBtuh, totalBtuh),
            !.condensationRate =
               Mul(massAirflow,
                   Sub(r.enteringHumidityRatio, r.leavingHumidityRatio))]

P1_Flows(r, cfm, tons, enteringDB, leavingDB, massAirflow) ==
  P1_Capacity([r EXCEPT !.standardCfmPerTon = Div(cfm, tons),
                        !.measuredDeltaT = Sub(enteringDB, leavingDB)],
              massAirflow,
              Mul(Mul(massAirflow, SPECIFIC_HEAT), Sub(enteringDB, leavingDB)),
              Mul(massAirflow, Sub(r.enteringEnthalpy, r.leavingEnthalpy)))

P1_Air(enteringDB, enteringRH, enteringWB, enteringW, leavingDB, leavingRH, leavingWB, leavingW, targetTemp) ==
  [enteringWetBulb |-> enteringWB,
   enteringDewPoint |-> P1_calculateDewPoint(enteringDB, enteringRH),
   enteringRH |-> enteringRH,
   enteringEnthalpy |-> P1_calculateEnthalpy(enteringDB, enteringW),
   enteringHumidityRatio |-> enteringW,
   leavingWetBulb |-> leavingWB,
   leavingDewPoint |-> P1_calculateDewPoint(leavingDB, leavingRH),
   leavingRH |-> leavingRH,
   leavingEnthalpy |-> P1_calculateEnthalpy(leavingDB, leavingW),
   leavingHumidityRatio |-> leavingW,
   sensibleBtuh |-> Zero, latentBtuh |-> Zero, totalBtuh |-> Zero,
   sensibleHeatRatio |-> Zero, standardCfmPerTon |-> Zero,
   massAirflow |-> Zero, condensationRate |-> Zero,
   targetTemp |-> targetTemp, measuredDeltaT |-> Zero]

\* The record passed to setResult, from the fields and the two air states.
P1_Result(cfm, tons, enteringDB, leavingDB, zone, entering, leaving) ==
  P1_Flows(P1_Air(enteringDB, entering.rh, entering.wb,
                  P1_calculateHumidityRatio(enteringDB, entering.rh),
                  leavingDB, leaving.rh, leaving.wb,
                  P1_calculateHumidityRatio(leavingDB, leaving.rh),
                  P1_calculateTargetTemperature(tons, enteringDB, zone)),
           cfm, tons, enteringDB, leavingDB,
           Mul(Mul(cfm, Num(60)), AIR_DENSITY))

P1_WetBulb(side, db, rh, done) ==
  EnterWetBulb(side, db, rh, P1_calculateHumidityRatio(db, rh), done)

\* The click handler up to its first call of calculateWetBulb.
P1_calculateProperties ==
  /\ Clicked("psychrometric")
  /\ IF \/ Empty(fields.enteringDryBulb) \/ Empty(fields.enteringHumidity)
        \/ Empty(fields.leavingDryBulb) \/ Empty(fields.leavingHumidity)
        \/ Empty(fields.airflow) \/ Empty(fields.systemSize)
        \/ fields.climateZone = ""
     THEN Skipped
     ELSE P1_WetBulb("enteringWetBulb", ParseFloat(fields.enteringDryBulb),
                     P1_RelativeHumidity(fields.enteringHumidityType,
                                         ParseFloat(fields.enteringDryBulb),
                                         ParseFloat(fields.enteringHumidity)),
                     Null)

\* One pass of the loop of calculateWetBulb.
P1_calculateWetBulb ==
  /\ app = "psychrometric"
  /\ pc \in {"enteringWetBulb", "leavingWetBulb"}
  /\ P1_Continue(frame)
  /\ frame' = Refined(frame,
                      WetBulbError(frame.db, frame.wb, frame.q,
                                   P1_calculateHumidityRatio(frame.wb, Num(100))))
  /\ UNCHANGED <<app, fields, result, pc, runs, fresh>>

\* calculateWetBulb returns the entering wet bulb; the handler goes on to the
\* leaving air state and calls calculateWetBulb again.
P1_enteringWetBulb ==
  /\ app = "psychrometric"
  /\ pc = "enteringWetBulb"
  /\ ~P1_Continue(frame)
  /\ P1_WetBulb("leavingWetBulb", ParseFloat(fields.leavingDryBulb),
                P1_RelativeHumidity(fields.leavingHumidityType,
                                    ParseFloat(fields.leavingDryBulb),
                                    ParseFloat(fields.leavingHumidity)),
                [rh |-> frame.rh, wb |-> frame.wb])

\* calculateWetBulb returns the leaving wet bulb; the handler computes the
\* capacities and calls setResult.
P1_leavingWetBulb ==
  /\ app = "psychrometric"
  /\ pc = "leavingWetBulb"
  /\ ~P1_Continue(frame)
  /\ Stored(P1_Result(ParseFloat(fields.airflow), ParseFloat(fields.systemSize),
                      ParseFloat(fields.enteringDryBulb),
                      ParseFloat(fields.leavingDryBulb), fields.climateZone,
                      frame.entering, [rh |-> frame.rh, wb |-> frame.wb]))

NextPsychrometric ==
  \/ Edit("psychrometric", [systemSize |-> {<<>>, <<"3">>},
                            climateZone |-> {"", "moist"},
                            airflow |-> {<<>>, <<"1", "2", "0", "0">>},
                            enteringDryBulb |-> {<<>>, <<"8", "0">>},
                            enteringHumidity |-> {<<>>, <<"1", "0", "0">>},
                            enteringHumidityType |-> {"rh", "wb", "dp"},
                            leavingDryBulb |-> {<<>>, <<"5", "5">>},
                            leavingHumidity |-> {<<>>, <<"5", "0">>},
                            leavingHumidityType |-> {"rh", "wb", "dp"}])
  \/ P1_calculateProperties
  \/ P1_calculateWetBulb
  \/ P1_enteringWetBulb
  \/ P1_leavingWetBulb

SpecPsychrometric == Mounted("psychrometric", PsychrometricFields) /\ [][NextPsychrometric]_vars

\* The same component with both air states entered as relative humidity and
\* leaving air that is cooler than, equal to or warmer than the entering air.
NextPsychrometricCapacity ==
  \/ Edit("psychrometric", [systemSize |-> {<<>>, <<"3">>},
                            climateZone |-> {"", "moist"},
                            airflow |-> {<<>>, <<"1", "2", "0", "0">>},
                            enteringDryBulb |-> {<<>>, <<"8", "0">>},
                            enteringHumidity |-> {<<>>, <<"1", "0", "0">>},
                            leavingDryBulb |->
                              {<<>>, <<"5", "5">>, <<"8", "0">>, <<"8", "5">>},
                            leavingHumidity |->
                              {<<>>, <<"5", "0">>, <<"1", "0", "0">>}])
  \/ P1_calculateProperties
  \/ P1_calculateWetBulb
  \/ P1_enteringWetBulb
  \/ P1_leavingWetBulb

SpecPsychrometricCapacity == Mounted("psychrometric", PsychrometricFields) /\ [][NextPsychrometricCapacity]_vars

(***************************************************************************)
(* PsychrometricCalculator of System Performance Calculator.tsx            *)
(***************************************************************************)

MaxPasses == 101

\* 6.11 * Math.exp((17.625 * celsius) / (243.04 + celsius))
SP_SaturationAt(c) ==
  IF c.k = "nan" THEN NaN
  ELSE Mul(Dec(611, -2),
           Exp(Div(Mul(WATER_VAPOR_CONSTANT, c),
                   Add(WATER_VAPOR_TEMP_CONSTANT, c))))

SP_calculateSaturationPressure(t) == SP_SaturationAt(Celsius(t))

\* (0.622 * pw) / (ATMOSPHERIC_PRESSURE - pw)
SP_RatioFrom(pw) ==
  IF pw.k = "nan" THEN NaN
  ELSE Div(Mul(Dec(622, -3), pw), Sub(ATMOSPHERIC_PRESSURE, pw))

\* pw = (rh/100) * pws
SP_VapourPressure(db, rh) ==
  Mul(Div(rh, Num(100)), SP_calculateSaturationPressure(db))

SP_calculateHumidityRatio(db, rh) == SP_RatioFrom(SP_VapourPressure(db, rh))

\* SPECIFIC_HEAT * db + w * (LATENT_HEAT + 0.444 * db)
SP_calculateEnthalpy(db, w) ==
  IF w.k = "nan" THEN NaN
  ELSE Add(Mul(SPECIFIC_HEAT, db),
           Mul(w, Add(LATENT_HEAT, Mul(Dec(444, -3), db))))

SP_calculateDewPoint(db, rh) == DewPointFrom(DewPointAlpha(Celsius(db), rh))

SP_calculateRHFromWetBulb(db, wb) ==
  RHFromRatio(WetBulbRatio(db, wb, SP_calculateSaturationPressure(wb)),
              SP_calculateSaturationPressure(db))

\* enteringDryBulb ? parseFloat(enteringDryBulb) - (sensibleCapacity / (1.08 * cfm)) : 75
SP_calculateTargetTemperature(tons, cfm, enteringDryBulb) ==
  IF Empty(enteringDryBulb) THEN Num(75)
  ELSE Sub(ParseFloat(enteringDryBulb),
           Div(Mul(Mul(tons, Num(12000)), Dec(8, -1)), Mul(Dec(108, -2), cfm)))

\* The relative humidity of one air state from the indicator chosen.
SP_RelativeHumidity(type, db, humidity) ==
  IF type = "rh" THEN humidity
  ELSE IF type = "wb" THEN SP_calculateRHFromWetBulb(db, humidity)
  ELSE Mul(Div(SP_calculateSaturationPressure(humidity),
               SP_calculateSaturationPressure(db)), Num(100))

\* while (Math.abs(error) > 0.01)
SP_Continue(f) == Gt(Abs(f.error), Dec(1, -2))

SP_Capacity(r, sensibleBtuh, totalBtuh) ==
  [r EXCEPT !.sensibleBtuh = sensibleBtuh,
            !.totalBtuh = totalBtuh,
            !.latentBtuh = Sub(totalBtuh, sensibleBtuh),
            !.shr = Div(sensibleBtuh, totalBtuh)]

SP_Flows(r, enteringDB, leavingDB, airMassFlow) ==
  SP_Capacity(r,
              Mul(Mul(airMassFlow, SPECIFIC_HEAT), Sub(enteringDB, leavingDB)),
              Mul(airMassFlow, Sub(r.enteringEnthalpy, r.leavingEnthalpy)))

SP_Air(enteringDB, enteringRH, enteringWB, leavingDB, leavingRH, leavingWB, targetTemp, nominalBtuh) ==
  [enteringWetBulb |-> enteringWB,
   enteringDewPoint |-> SP_calculateDewPoint(enteringDB, enteringRH),
   enteringRH |-> enteringRH,
   enteringEnthalpy |->
     SP_calculateEnthalpy(enteringDB,
                          SP_calculateHumidityRatio(enteringDB, enteringRH)),
   leavingWetBulb |-> leavingWB,
   leavingDewPoint |-> SP_calculateDewPoint(leavingDB, leavingRH),
   leavingRH |-> leavingRH,
   leavingEnthalpy |->
     SP_calculateEnthalpy(leavingDB,
                          SP_calculateHumidityRatio(leavingDB, leavingRH)),
   sensibleBtuh |-> Zero, latentBtuh |-> Zero, totalBtuh |-> Zero,
   shr |-> Zero,
   targetTemp |-> targetTemp,
   nominalCapacity |-> nominalBtuh]

\* The record passed to setResult, from the fields and the two air states.
SP_Result(cfm, tons, enteringDB, leavingDB, enteringDryBulb, entering, leaving) ==
  SP_Flows(SP_Air(enteringDB, entering.rh, entering.wb,
                  leavingDB, leaving.rh, leaving.wb,
                  SP_calculateTargetTemperature(tons, cfm, enteringDryBulb),
                  Mul(tons, Num(12000))),
           enteringDB, leavingDB, Mul(Mul(cfm, Num(60)), AIR_DENSITY))

SP_WetBulb(side, db, rh, done) ==
  EnterWetBulb(side, db, rh, SP_VapourPressure(db, rh), done)

\* The click handler up to its first call of calculateWetBulb.
SP_calculateProperties ==
  /\ Clicked("systemPerformance")
  /\ IF \/ Empty(fields.enteringDryBulb) \/ Empty(fields.enteringHumidity)
        \/ Empty(fields.leavingDryBulb) \/ Empty(fields.leavingHumidity)
        \/ Empty(fields.airflow) \/ Empty(fields.systemSize)
     THEN Skipped
     ELSE SP_WetBulb("enteringWetBulb", ParseFloat(fields.enteringDryBulb),
                     SP_RelativeHumidity(fields.enteringHumidityType,
                                         ParseFloat(fields.enteringDryBulb),
                                         ParseFloat(fields.enteringHumidity)),
                     Null)

\* One pass of the loop of calculateWetBulb.  The loop has no counter of its
\* own: iteration counts the passes, and the passes are followed up to
\* MaxPasses.
SP_calculateWetBulb ==
  /\ app = "systemPerformance"
  /\ pc \in {"enteringWetBulb", "leavingWetBulb"}
  /\ SP_Continue(frame)
  /\ frame.iteration < MaxPasses
  /\ frame' = Refined(frame,
                      WetBulbError(frame.db, frame.wb, SP_RatioFrom(frame.q),
                                   SP_RatioFrom(SP_calculateSaturationPressure(frame.wb))))
  /\ UNCHANGED <<app, fields, result, pc, runs, fresh>>

\* calculateWetBulb returns the entering wet bulb; the handler goes on to the
\* leaving air state and calls calculateWetBulb again.
SP_enteringWetBulb ==
  /\ app = "systemPerformance"
  /\ pc = "enteringWetBulb"
  /\ ~SP_Continue(frame)
  /\ SP_WetBulb("leavingWetBulb", ParseFloat(fields.leavingDryBulb),
                SP_RelativeHumidity(fields.leavingHumidityType,
                                    ParseFloat(fields.leavingDryBulb),
                                    ParseFloat(fields.leavingHumidity)),
                [rh |-> frame.rh, wb |-> frame.wb])

\* calculateWetBulb returns the leaving wet bulb; the handler computes the
\* capacities and calls setResult.
SP_leavingWetBulb ==
  /\ app = "systemPerformance"
  /\ pc = "leavingWetBulb"
  /\ ~SP_Continue(frame)
  /\ Stored(SP_Result(ParseFloat(fields.airflow), ParseFloat(fields.systemSize),
                      ParseFloat(fields.enteringDryBulb),
                      ParseFloat(fields.leavingDryBulb), fields.enteringDryBulb,
                      frame.entering, [rh |-> frame.rh, wb |-> frame.wb]))

NextSystemPerformance ==
  \/ Edit("systemPerformance", [systemSize |-> {<<>>, <<"3">>},
                                climateZone |-> {"", "moist"},
                                airflow |-> {<<>>, <<"1", "2", "0", "0">>},
                                enteringDryBulb |-> {<<>>, <<"8", "0">>},
                                enteringHumidity |-> {<<>>, <<"5", "0">>, <<"1", "0", "0">>},
                                enteringHumidityType |-> {"rh", "wb", "dp"},
                                leavingDryBulb |-> {<<>>, <<"5", "5">>},
                                leavingHumidity |-> {<<>>, <<"1", "0", "0">>},
                                leavingHumidityType |-> {"rh", "wb", "dp"}])
  \/ SP_calculateProperties
  \/ SP_calculateWetBulb
  \/ SP_enteringWetBulb
  \/ SP_leavingWetBulb

SpecSystemPerformance == Mounted("systemPerformance", PsychrometricFields) /\ [][NextSystemPerformance]_vars

(***************************************************************************)
(* The psychrometric functions of the two components on their own          *)
(***************************************************************************)

\* The file a function is taken from.
Components == {"part_001", "System Performance Calculator"}

\* Dry-bulb temperatures (degrees F) and relative humidities (%) the
\* functions are applied to.
Temperatures == {Num(50), Num(60), Num(70), Num(80), Num(90), Num(100)}

Humidities == {Zero, Num(10), Num(50), Num(70), Num(95), Num(100)}

DewPointIn(c, db, rh) ==
  IF c = "part_001" THEN P1_calculateDewPoint(db, rh)
  ELSE SP_calculateDewPoint(db, rh)

HumidityRatioIn(c, db, rh) ==
  IF c = "part_001" THEN P1_calculateHumidityRatio(db, rh)
  ELSE SP_calculateHumidityRatio(db, rh)

RHFromWetBulbIn(c, db, wb) ==
  IF c = "part_001" THEN P1_calculateRHFromWetBulb(db, wb)
  ELSE SP_calculateRHFromWetBulb(db, wb)

\* What calculateWetBulb keeps across its loop besides wb and error: w in
\* part_001, pw in System Performance Calculator.
WetBulbConstantIn(c, db, rh) ==
  IF c = "part_001" THEN P1_calculateHumidityRatio(db, rh)
  ELSE SP_VapourPressure(db, rh)

\* The loop condition; the passes of the loop without a counter are followed
\* up to MaxPasses.
WetBulbContinuesIn(c, f) ==
  IF c = "part_001" THEN P1_Continue(f)
  ELSE SP_Continue(f) /\ f.iteration < MaxPasses

WetBulbStopsIn(c, f) ==
  IF c = "part_001" THEN ~P1_Continue(f) ELSE ~SP_Continue(f)

WetBulbErrorIn(c, f) ==
  IF c = "part_001"
  THEN WetBulbError(f.db, f.wb, f.q, P1_calculateHumidityRatio(f.wb, Num(100)))
  ELSE WetBulbError(f.db, f.wb, SP_RatioFrom(f.q),
                    SP_RatioFrom(SP_calculateSaturationPressure(f.wb)))

\* A function is about to be applied to one dry bulb and one humidity.
FunctionInputs ==
  /\ app = "functions"
  /\ fields \in [component : Components, db : Temperatures, rh : Humidities]
  /\ result = Null
  /\ pc = "idle"
  /\ frame = Null
  /\ runs = 0
  /\ fresh = FALSE

\* Function f returned v after n passes of its loop.
Returned(f, v, n) ==
  /\ result' = [function |-> f, value |-> v, passes |-> n]
  /\ pc' = "returned"
  /\ frame' = Null
  /\ UNCHANGED <<app, fields, runs, fresh>>

calculateDewPoint ==
  /\ app = "functions" /\ pc = "idle"
  /\ Returned("calculateDewPoint",
              DewPointIn(fields.component, fields.db, fields.rh), 0)

calculateHumidityRatio ==
  /\ app = "functions" /\ pc = "idle"
  /\ Returned("calculateHumidityRatio",
              HumidityRatioIn(fields.component, fields.db, fields.rh), 0)

\* calculateWetBulb(db, rh) up to its loop.
calculateWetBulb ==
  /\ app = "functions" /\ pc = "idle"
  /\ EnterWetBulb("calculateWetBulb", fields.db, fields.rh,
                  WetBulbConstantIn(fields.component, fields.db, fields.rh),
                  Null)

\* One pass of the loop of calculateWetBulb.
calculateWetBulbPass ==
  /\ app = "functions" /\ pc = "calculateWetBulb"
  /\ WetBulbContinuesIn(fields.component, frame)
  /\ frame' = Refined(frame, WetBulbErrorIn(fields.component, frame))
  /\ UNCHANGED <<app, fields, result, pc, runs, fresh>>

\* return wb
calculateWetBulbReturn ==
  /\ app = "functions" /\ pc = "calculateWetBulb"
  /\ WetBulbStopsIn(fields.component, frame)
  /\ Returned("calculateWetBulb", frame.wb, frame.iteration)

\* calculateRHFromWetBulb(db, calculateWetBulb(db, rh))
calculateRHFromWetBulb ==
  /\ app = "functions" /\ pc = "returned"
  /\ result.function = "calculateWetBulb"
  /\ Returned("calculateRHFromWetBulb",
              RHFromWetBulbIn(fields.component, fields.db, result.value),
              result.passes)

NextFunctions ==
  \/ calculateDewPoint
  \/ calculateHumidityRatio
  \/ calculateWetBulb
  \/ calculateWetBulbPass
  \/ calculateWetBulbReturn
  \/ calculateRHFromWetBulb

SpecFunctions == FunctionInputs /\ [][NextFunctions]_vars

(***************************************************************************)
(* DuctCalculator                                                          *)
(***************************************************************************)

MaxFittings == 1

FITTING_TYPES ==
  [x \in {"elbow-90", "elbow-45", "tee", "reducer", "entry", "exit"} |->
     IF x = "elbow-90" THEN Dec(3, -1)
     ELSE IF x = "elbow-45" THEN Dec(2, -1)
     ELSE IF x = "reducer" THEN Dec(4, -1)
     ELSE IF x = "entry" THEN Dec(5, -1)
     ELSE One]

DEFAULT_COMPONENTS ==
  <<[name |-> "Return Air Grille", pressureLoss |-> Dec(3, -2)],
    [name |-> "Filter", pressureLoss |-> Dec(10, -2)],
    [name |-> "Supply Air Grilles", pressureLoss |-> Dec(30, -2)],
    [name |-> "Dampers", pressureLoss |-> Dec(30, -2)]>>

VELOCITY_LIMITS ==
  [x \in {"supply-main", "supply-branch", "return-main", "return-branch"} |->
     IF x = "supply-main" THEN [min |-> Num(700), max |-> Num(900)]
     ELSE IF x = "supply-branch" THEN [min |-> Num(600), max |-> Num(800)]
     ELSE IF x = "return-main" THEN [min |-> Num(600), max |-> Num(700)]
     ELSE [min |-> Num(400), max |-> Num(600)]]

addFitting ==
  /\ app = "duct"
  /\ Len(fields.fittings) < MaxFittings
  /\ Changed("duct", [fields EXCEPT !.fittings =
       Append(@, [type |-> "elbow-90", quantity |-> One,
                  coefficient |-> Dec(3, -1)])])

\* updateFitting(index, 'type', value) and updateFitting(index, 'quantity',
\* parseInt(e.target.value))
updateFitting ==
  /\ app = "duct"
  /\ \E index \in 1..Len(fields.fittings) :
       \/ \E value \in {"tee"} :
            /\ value # fields.fittings[index].type
            /\ Changed("duct",
                       [fields EXCEPT !.fittings[index].type = value,
                                      !.fittings[index].coefficient =
                                         FITTING_TYPES[value]])
       \/ \E value \in {<<>>} :
            /\ ParseInt(value) # fields.fittings[index].quantity
            /\ Changed("duct",
                       [fields EXCEPT !.fittings[index].quantity =
                                         ParseInt(value)])

removeFitting ==
  /\ app = "duct"
  /\ \E index \in 1..Len(fields.fittings) :
       Changed("duct", [fields EXCEPT !.fittings =
         SubSeq(@, 1, index - 1) \o SubSeq(@, index + 1, Len(@))])

\* parseFloat(value) || 0
OrZero(x) == IF Truthy(x) THEN x ELSE Zero

updateComponentPressureLoss ==
  /\ app = "duct"
  /\ \E index \in {2} : \E value \in {<<>>} :
       /\ OrZero(ParseFloat(value)) # fields.components[index].pressureLoss
       /\ Changed("duct", [fields EXCEPT !.components[index].pressureLoss =
                                       OrZero(ParseFloat(value))])

RECURSIVE SumLosses(_, _, _)
\* components.reduce((total, component) => total + component.pressureLoss, 0)
SumLosses(components, i, total) ==
  IF i > Len(components) \/ ~IsFinite(total) THEN total
  ELSE SumLosses(components, i + 1, Add(total, components[i].pressureLoss))

calculateTotalComponentLosses(components) == SumLosses(components, 1, Zero)

RECURSIVE SumFittings(_, _, _, _)
\* fittings.reduce((total, fitting) =>
\*   total + (fitting.coefficient * fitting.quantity * factor), 0)
SumFittings(fittings, i, factor, total) ==
  IF i > Len(fittings) \/ total.k = "nan" THEN total
  ELSE SumFittings(fittings, i + 1, factor,
                   Add(total, Mul(Mul(fittings[i].coefficient,
                                      fittings[i].quantity), factor)))

RECURSIVE SumLengths(_, _, _)
\* fittings.reduce((total, fitting) =>
\*   total + (fitting.coefficient * fitting.quantity), 0)
SumLengths(fittings, i, total) ==
  IF i > Len(fittings) \/ total.k = "nan" THEN total
  ELSE SumLengths(fittings, i + 1,
                  Add(total, Mul(fittings[i].coefficient, fittings[i].quantity)))

calculateEquivalentLength(straightLength, fittings) ==
  Add(OrZero(ParseFloat(straightLength)), SumLengths(fittings, 1, Zero))

\* A rounding to the standard size below instead of the one above.
roundToStandardDown(size, isRound) ==
  IF isRound THEN Floor(size) ELSE Div(Floor(Mul(size, Num(2))), Num(2))

roundToStandard(size, isRound) ==
  IF isRound THEN Ceil(size) ELSE Div(Ceil(Mul(size, Num(2))), Num(2))

calculateRectangularHeight(width, area) ==
  roundToStandard(Div(area, width), FALSE)

\* ductType.includes('rect')
IsRect(ductType) == ductType \in {"rect-metal", "rect-board"}

\* (velocityLimit.min + velocityLimit.max) / 2
TargetVelocity(limit) == Div(Add(limit.min, limit.max), Num(2))

\* `Velocity exceeds maximum limit of ${velocityLimit.max} FPM for ${velocityAdjustment}`
VelocityWarning(adjustment) ==
  IF adjustment = "supply-main"
  THEN "Velocity exceeds maximum limit of 900 FPM for supply-main"
  ELSE IF adjustment = "supply-branch"
  THEN "Velocity exceeds maximum limit of 800 FPM for supply-branch"
  ELSE IF adjustment = "return-main"
  THEN "Velocity exceeds maximum limit of 700 FPM for return-main"
  ELSE "Velocity exceeds maximum limit of 600 FPM for return-branch"

\* The rectangular branch: [velocity, recommendedSize, warnings] from the
\* width and the height found for it.  recommendedSize is `${w}" x ${h}"`,
\* kept as the two numbers in the text form the template gives them.
RectSized(cfm, w, h, adjustment) ==
  [velocity |-> Div(cfm, Div(Mul(w, h), Num(144))),
   recommendedSize |-> [w |-> NumberToString(w), h |-> NumberToString(h)],
   warnings |->
     IF Gt(Div(cfm, Div(Mul(w, h), Num(144))), VELOCITY_LIMITS[adjustment].max)
     THEN <<VelocityWarning(adjustment)>> ELSE <<>>]

RectDuct(cfm, w, adjustment) ==
  RectSized(cfm, w,
            calculateRectangularHeight(w,
              Mul(Div(cfm, TargetVelocity(VELOCITY_LIMITS[adjustment])), Num(144))),
            adjustment)

\* The round branch: recommendedSize is `${roundedDiameter}" diameter`.
RoundSized(cfm, roundedDiameter, velocity, ductType) ==
  [velocity |-> velocity,
   recommendedSize |-> [diameter |-> NumberToString(roundedDiameter)],
   warnings |->
     IF ductType = "round-flex" /\ Gt(velocity, Num(900))
     THEN <<"Velocity exceeds recommended limit for flex duct (900 FPM)">>
     ELSE <<>>]

\* Math.PI * Math.pow(roundedDiameter / 24, 2)
RoundArea(roundedDiameter) ==
  IF roundedDiameter.k = "nan" THEN NaN
  ELSE Mul(Pi, Mul(Div(roundedDiameter, Num(24)), Div(roundedDiameter, Num(24))))

RoundRounded(cfm, roundedDiameter, ductType) ==
  RoundSized(cfm, roundedDiameter, Div(cfm, RoundArea(roundedDiameter)), ductType)

\* diameter = Math.sqrt((4 * area * 144) / Math.PI)
RoundDiameter(area) ==
  IF area.k = "nan" THEN NaN
  ELSE Sqrt(Div(Mul(Mul(Num(4), area), Num(144)), Pi))

RoundDuct(cfm, adjustment, ductType) ==
  RoundRounded(cfm,
               roundToStandard(
                 RoundDiameter(Div(cfm, TargetVelocity(VELOCITY_LIMITS[adjustment]))),
                 TRUE),
               ductType)

\* staticPressure *= 1.5 for flex duct
FlexFactor(ductType, staticPressure) ==
  IF ductType = "round-flex" THEN Mul(staticPressure, Dec(15, -1))
  ELSE staticPressure

\* The two pressure warnings with their comparisons taken inclusively.
DuctWarningsInclusive(sized, ductType, staticPressure, availableStaticPressure) ==
  sized.warnings
  \o (IF ductType = "round-flex"
      THEN <<"Flex duct pressure loss includes 50% safety factor">> ELSE <<>>)
  \o (IF Le(availableStaticPressure, Zero)
      THEN <<"System component losses exceed design static pressure!">>
      ELSE <<>>)
  \o (IF Ge(staticPressure, availableStaticPressure)
      THEN <<"Calculated duct losses exceed available static pressure!">>
      ELSE <<>>)

DuctWarnings(sized, ductType, staticPressure, availableStaticPressure) ==
  sized.warnings
  \o (IF ductType = "round-flex"
      THEN <<"Flex duct pressure loss includes 50% safety factor">> ELSE <<>>)
  \o (IF Lt(availableStaticPressure, Zero)
      THEN <<"System component losses exceed design static pressure!">>
      ELSE <<>>)
  \o (IF Gt(staticPressure, availableStaticPressure)
      THEN <<"Calculated duct losses exceed available static pressure!">>
      ELSE <<>>)

DuctResultWith(sized, ductType, eqLength, available, frictionRate, staticPressure) ==
  [velocity |-> sized.velocity,
   equivalentLength |-> eqLength,
   staticPressure |-> staticPressure,
   availableStaticPressure |-> available,
   recommendedSize |-> sized.recommendedSize,
   warnings |-> DuctWarnings(sized, ductType, staticPressure, available),
   frictionRate |-> frictionRate]

\* velocityPressure = Math.pow(velocity / 4005, 2)
VelocityPressure(velocity) ==
  IF velocity.k = "nan" THEN NaN
  ELSE Mul(Div(velocity, Num(4005)), Div(velocity, Num(4005)))

\* staticPressure = frictionLoss + dynamicLosses
DuctLosses(sized, f, eqLength, available, frictionRate) ==
  DuctResultWith(sized, f.ductType, eqLength, available, frictionRate,
    FlexFactor(f.ductType,
      Add(Div(Mul(frictionRate, eqLength), Num(100)),
          SumFittings(f.fittings, 1, VelocityPressure(sized.velocity), Zero))))

\* frictionRate = (availableStaticPressure * 100) / eqLength
DuctFriction(sized, f, eqLength, available) ==
  DuctLosses(sized, f, eqLength, available,
             Div(Mul(available, Num(100)), eqLength))

DuctResult(sized, f) ==
  DuctFriction(sized, f,
               calculateEquivalentLength(f.straightLength, f.fittings),
               Sub(ParseFloat(f.designStaticPressure),
                   calculateTotalComponentLosses(f.components)))

calculateDuctSize ==
  /\ Clicked("duct")
  /\ IF \/ fields.ductType = "" \/ Empty(fields.airflow)
        \/ Empty(fields.designStaticPressure)
     THEN Skipped
     ELSE IF IsRect(fields.ductType)
     THEN IF Empty(fields.width) THEN Skipped
          ELSE Stored(DuctResult(RectDuct(ParseFloat(fields.airflow),
                                          ParseFloat(fields.width),
                                          fields.velocityAdjustment),
                                 fields))
     ELSE Stored(DuctResult(RoundDuct(ParseFloat(fields.airflow),
                                      fields.velocityAdjustment,
                                      fields.ductType),
                            fields))

\* The slots of the component as useState initialises them.
\* The pressure figures of the results panel, rendered whenever a result is
\* stored: the design static pressure is the text of the input box and the
\* component losses are summed from the components as they are now, while the
\* available static pressure is the one of the stored result.
DuctDisplay(f, r) ==
  [designStaticPressure    |-> f.designStaticPressure,
   componentLosses         |-> ToFixed(calculateTotalComponentLosses(f.components), 3),
   availableStaticPressure |-> ToFixed(r.availableStaticPressure, 3),
   frictionRate            |-> ToFixed(r.frictionRate, 3)]

DuctFields ==
  [ductType |-> "", airflow |-> <<>>,
   designStaticPressure |-> <<"0", ".", "5">>,
   straightLength |-> <<>>, fittings |-> <<>>,
   velocityAdjustment |-> "supply-main",
   components |-> DEFAULT_COMPONENTS, width |-> <<>>]

NextDuct ==
  \/ Edit("duct", [ductType |-> {"round-flex", "rect-metal"},
                   airflow |-> {<<"5", "0", "0">>},
                   designStaticPressure |-> {<<>>, <<"1">>},
                   straightLength |-> {<<"5", "0">>},
                   velocityAdjustment |-> {"supply-main"},
                   width |-> {<<"1", "2">>}])
  \/ addFitting
  \/ updateFitting
  \/ removeFitting
  \/ updateComponentPressureLoss
  \/ calculateDuctSize

SpecDuct == Mounted("duct", DuctFields) /\ [][NextDuct]_vars

\* The same component sized for each velocity range: 50, 500 and 2000 CFM in
\* round metal, round flex and rectangular metal duct 8 and 12 inches wide,
\* with no lengths or fittings entered.
NextDuctSizing ==
  \/ Edit("duct", [ductType |-> {"round-metal", "round-flex", "rect-metal"},
                   airflow |-> {<<"5", "0">>, <<"5", "0", "0">>,
                                <<"2", "0", "0", "0">>},
                   velocityAdjustment |-> {"supply-main", "supply-branch",
                                           "return-main", "return-branch"},
                   width |-> {<<"8">>, <<"1", "2">>}])
  \/ calculateDuctSize

SpecDuctSizing == Mounted("duct", DuctFields) /\ [][NextDuctSizing]_vars

\* The same component with a length entered: round metal duct for 500 CFM,
\* 23 or 50 ft long, at a design static pressure of 0.5 or 1.2 in. w.g.,
\* with and without fittings.
NextDuctFriction ==
  \/ Edit("duct", [ductType |-> {"round-metal"},
                   airflow |-> {<<"5", "0", "0">>},
                   designStaticPressure |-> {<<>>, <<"1", ".", "2">>},
                   straightLength |-> {<<"2", "3">>, <<"5", "0">>}])
  \/ addFitting
  \/ removeFitting
  \/ calculateDuctSize

SpecDuctFriction == Mounted("duct", DuctFields) /\ [][NextDuctFriction]_vars

(***************************************************************************)
(* FilterCalculator                                                        *)
(***************************************************************************)

FILTER_TYPES ==
  [x \in {"fiberglass", "pleated-basic", "pleated-better", "pleated-best"} |->
     IF x = "fiberglass"
     THEN [v300 |-> Dec(5, -2), v350 |-> Dec(8, -2), v400 |-> Dec(12, -2)]
     ELSE IF x = "pleated-basic"
     THEN [v300 |-> Dec(8, -2), v350 |-> Dec(12, -2), v400 |-> Dec(15, -2)]
     ELSE IF x = "pleated-better"
     THEN [v300 |-> Dec(15, -2), v350 |-> Dec(18, -2), v400 |-> Dec(22, -2)]
     ELSE [v300 |-> Dec(20, -2), v350 |-> Dec(25, -2), v400 |-> Dec(30, -2)]]

\* CLIMATE_ZONES[climateZone].cfmPerTon
CLIMATE_ZONES ==
  [x \in {"hot-humid", "moist", "dry", "marine"} |->
     IF x = "hot-humid" THEN Num(350) ELSE IF x = "dry" THEN Num(450)
     ELSE Num(400)]

\* The buckets with their upper limits left out: 300 and 350 FPM fall into
\* the next bucket.
InitialPressureDropExclusive(fpm, selectedFilter) ==
  IF Lt(fpm, Num(300)) THEN selectedFilter.v300
  ELSE IF Lt(fpm, Num(350)) THEN selectedFilter.v350
  ELSE selectedFilter.v400

InitialPressureDrop(fpm, selectedFilter) ==
  IF Le(fpm, Num(300)) THEN selectedFilter.v300
  ELSE IF Le(fpm, Num(350)) THEN selectedFilter.v350
  ELSE selectedFilter.v400

FilterResultFrom(totalCFM, filterArea, fpm, selectedFilter) ==
  [cfm |-> totalCFM,
   filterArea |-> filterArea,
   fpm |-> fpm,
   initialPressureDrop |-> InitialPressureDrop(fpm, selectedFilter),
   maxPressureDrop |-> Dec(15, -2)]

FilterSized(totalCFM, filterArea, filterType) ==
  FilterResultFrom(totalCFM, filterArea, Div(totalCFM, filterArea),
                   FILTER_TYPES[filterType])

\* The face area taken in square inches, the division by 144 left out.
FilterResultSquareInches(tons, width, height, climateZone, filterType) ==
  FilterSized(Mul(tons, CLIMATE_ZONES[climateZone]), Mul(width, height),
              filterType)

FilterResult(tons, width, height, climateZone, filterType) ==
  FilterSized(Mul(tons, CLIMATE_ZONES[climateZone]),
              Div(Mul(width, height), Num(144)), filterType)

calculateFilterParameters ==
  /\ Clicked("filter")
  /\ IF \/ Empty(fields.systemSize) \/ fields.climateZone = ""
        \/ Empty(fields.filterWidth) \/ Empty(fields.filterHeight)
        \/ fields.filterType = ""
     THEN Skipped
     ELSE Stored(FilterResult(ParseFloat(fields.systemSize),
                              ParseFloat(fields.filterWidth),
                              ParseFloat(fields.filterHeight),
                              fields.climateZone, fields.filterType))

\* The results panel: the figures as toFixed prints them and the two
\* conditional warning boxes.
FilterDisplay(r) ==
  [cfm                |-> ToFixed(r.cfm, 0),
   filterArea         |-> ToFixed(r.filterArea, 2),
   fpm                |-> ToFixed(r.fpm, 0),
   initialPressureDrop |-> ToFixed(r.initialPressureDrop, 3),
   maxPressureDrop    |-> ToFixed(r.maxPressureDrop, 2),
   velocityWarning    |-> Gt(r.fpm, Num(350)),
   pressureDropWarning |->
     Gt(r.initialPressureDrop, Div(r.maxPressureDrop, Num(2)))]

\* The slots of the component as useState initialises them.
FilterFields ==
  [systemSize |-> <<>>, climateZone |-> "", filterWidth |-> <<>>,
   filterHeight |-> <<>>, filterType |-> ""]

NextFilter ==
  \/ Edit("filter",
          [systemSize   |-> {<<>>, <<"3">>},
           climateZone  |-> {"", "hot-humid"},
           filterWidth  |-> {<<>>, <<"2", "0">>},
           filterHeight |-> {<<>>, <<"2", "5">>, <<"1", "0">>},
           filterType   |-> {"", "fiberglass", "pleated-best"}])
  \/ calculateFilterParameters

SpecFilter == Mounted("filter", FilterFields) /\ [][NextFilter]_vars

\* The same component with filters that put the face velocity of 1050 CFM
\* below, on and above the bucket limits: 252, 300, 315, 350 and 630 FPM.
NextFilterVelocity ==
  \/ Edit("filter",
          [systemSize   |-> {<<>>, <<"3">>},
           climateZone  |-> {"", "hot-humid"},
           filterWidth  |-> {<<>>, <<"2", "4">>},
           filterHeight |-> {<<>>, <<"2", "5">>, <<"2", "1">>, <<"2", "0">>,
                             <<"1", "8">>, <<"1", "0">>},
           filterType   |-> {"", "fiberglass", "pleated-best"}])
  \/ calculateFilterParameters

SpecFilterVelocity == Mounted("filter", FilterFields) /\ [][NextFilterVelocity]_vars

(***************************************************************************)
(* AtticVentilationCalculator                                              *)
(***************************************************************************)

STACK_EFFECT_COEFFICIENT == Dec(188, -4)

MIN_VENT_RATIO == Div(One, Num(300))

RECOMMENDED_VENT_RATIO == Div(One, Num(150))

INTAKE_TO_EXHAUST_RATIO == Dec(15, -1)

\* A message of the recommendations list; a template literal keeps the text
\* toFixed(1) gave its number.
Message(text) == [text |-> text, amount |-> <<>>]

Amount(text, x) == [text |-> text, amount |-> ToFixed(x, 1)]

\* existingIntakeArea ? parseFloat(existingIntakeArea) : 0
Existing(area) == IF Empty(area) THEN Zero ELSE ParseFloat(area)

\* STACK_EFFECT_COEFFICIENT * area * Math.sqrt(Math.abs(tempDiff)) * Math.sign(tempDiff)
StackEffect(area, tempDiff) ==
  IF tempDiff.k = "nan" THEN NaN
  ELSE Mul(Mul(Mul(STACK_EFFECT_COEFFICIENT, area), Sqrt(Abs(tempDiff))),
           Sign(tempDiff))

\* The warning each check pushes, <<>> when it does not fire, in the order of
\* the checks; the status is that of the last check that set it.
AtticChecks(tempDiff, pressure, dewPointDiff, belowMinimum) ==
  <<IF Gt(tempDiff, Num(20))
    THEN [warning |-> "High temperature differential indicates insufficient ventilation",
          status |-> "Inadequate"]
    ELSE Null,
    IF Gt(tempDiff, Num(30))
    THEN [warning |-> "Critical temperature differential - immediate action recommended",
          status |-> "Critical"]
    ELSE Null,
    IF Gt(Abs(pressure), Num(2))
    THEN [warning |-> "High pressure differential may indicate blocked vents or insufficient ventilation",
          status |-> "Inadequate"]
    ELSE Null,
    IF Gt(dewPointDiff, Num(5))
    THEN [warning |-> "High moisture levels in attic - increased ventilation recommended",
          status |-> "Inadequate"]
    ELSE Null,
    IF belowMinimum
    THEN [warning |-> "Existing ventilation area below minimum code requirements",
          status |-> "Critical"]
    ELSE Null>>

RECURSIVE AtticWarnings(_, _)
AtticWarnings(checks, i) ==
  IF i > Len(checks) THEN <<>>
  ELSE (IF checks[i] = Null THEN <<>> ELSE <<checks[i].warning>>)
       \o AtticWarnings(checks, i + 1)

\* A status that looks at the two temperature checks only.
AtticStatusTemperatureOnly(checks, i) ==
  IF checks[2] # Null THEN "Critical"
  ELSE IF checks[1] # Null THEN "Inadequate" ELSE "Adequate"

RECURSIVE AtticStatus(_, _)
AtticStatus(checks, i) ==
  IF i = 0 THEN "Adequate"
  ELSE IF checks[i] # Null THEN checks[i].status
  ELSE AtticStatus(checks, i - 1)

\* The recommendations that compare the existing areas with the required ones.
AreaRecommendations(existingIntake, existingExhaust, minVentArea, recommendedVentArea, requiredIntake, requiredExhaust) ==
  IF Truthy(existingIntake) /\ Truthy(existingExhaust)
  THEN (IF ~Lt(Add(existingIntake, existingExhaust), minVentArea)
           /\ Lt(Add(existingIntake, existingExhaust), recommendedVentArea)
        THEN <<Message("Consider increasing ventilation area to meet recommended guidelines")>>
        ELSE <<>>)
       \o (IF Lt(existingIntake, requiredIntake)
           THEN <<Amount("Add ${} sq ft of intake ventilation",
                         Sub(requiredIntake, existingIntake))>>
           ELSE <<>>)
       \o (IF Lt(existingExhaust, requiredExhaust)
           THEN <<Amount("Add ${} sq ft of exhaust ventilation",
                         Sub(requiredExhaust, existingExhaust))>>
           ELSE <<>>)
  ELSE <<Amount("Install ${} sq ft of intake ventilation", requiredIntake),
         Amount("Install ${} sq ft of exhaust ventilation", requiredExhaust)>>

PressureRecommendations(pressure) ==
  IF Gt(pressure, Zero)
  THEN <<Message("Consider adding more exhaust ventilation to balance pressure")>>
  ELSE IF Lt(pressure, Zero)
  THEN <<Message("Consider adding more intake ventilation to balance pressure")>>
  ELSE <<>>

AtticResultWith(pressure, tempDiff, dewPointDiff, area, requiredIntake, requiredExhaust, recommendations, checks) ==
  [pressureDifferential |-> pressure,
   temperatureDifferential |-> tempDiff,
   dewPointDifferential |-> dewPointDiff,
   stackEffect |-> StackEffect(area, tempDiff),
   requiredVentArea |-> [intake |-> requiredIntake, exhaust |-> requiredExhaust],
   recommendations |-> recommendations \o PressureRecommendations(pressure),
   warnings |-> AtticWarnings(checks, 1),
   ventilationStatus |-> AtticStatus(checks, Len(checks))]

AtticAreas(pressure, tempDiff, dewPointDiff, area, existingIntake, existingExhaust, minVentArea, recommendedVentArea, requiredIntake) ==
  AtticResultWith(pressure, tempDiff, dewPointDiff, area, requiredIntake,
                  Sub(recommendedVentArea, requiredIntake),
                  AreaRecommendations(existingIntake, existingExhaust,
                                      minVentArea, recommendedVentArea,
                                      requiredIntake,
                                      Sub(recommendedVentArea, requiredIntake)),
                  AtticChecks(tempDiff, pressure, dewPointDiff,
                              /\ Truthy(existingIntake)
                              /\ Truthy(existingExhaust)
                              /\ Lt(Add(existingIntake, existingExhaust),
                                    minVentArea)))

\* requiredIntake = (totalRequiredVentArea * INTAKE_TO_EXHAUST_RATIO)
\*                  / (1 + INTAKE_TO_EXHAUST_RATIO)
AtticResult(pressure, outTemp, outDP, attTemp, attDP, area, existingIntake, existingExhaust) ==
  AtticAreas(pressure, Sub(attTemp, outTemp), Sub(attDP, outDP), area,
             existingIntake, existingExhaust,
             Mul(area, MIN_VENT_RATIO), Mul(area, RECOMMENDED_VENT_RATIO),
             Div(Mul(Mul(area, RECOMMENDED_VENT_RATIO), INTAKE_TO_EXHAUST_RATIO),
                 Add(One, INTAKE_TO_EXHAUST_RATIO)))

calculateVentilation ==
  /\ Clicked("attic")
  /\ IF \/ Empty(fields.pressureDifferential) \/ Empty(fields.outdoorTemp)
        \/ Empty(fields.outdoorDewPoint) \/ Empty(fields.atticTemp)
        \/ Empty(fields.atticDewPoint) \/ Empty(fields.atticArea)
     THEN Skipped
     ELSE Stored(AtticResult(ParseFloat(fields.pressureDifferential),
                             ParseFloat(fields.outdoorTemp),
                             ParseFloat(fields.outdoorDewPoint),
                             ParseFloat(fields.atticTemp),
                             ParseFloat(fields.atticDewPoint),
                             ParseFloat(fields.atticArea),
                             Existing(fields.existingIntakeArea),
                             Existing(fields.existingExhaustArea)))

\* The slots of the component as useState initialises them.
AtticFields ==
  [pressureDifferential |-> <<>>, outdoorTemp |-> <<>>,
   outdoorDewPoint |-> <<>>, atticTemp |-> <<>>, atticDewPoint |-> <<>>,
   atticArea |-> <<>>, existingIntakeArea |-> <<>>,
   existingExhaustArea |-> <<>>]

NextAttic ==
  \/ Edit("attic",
          [pressureDifferential |-> {<<"1">>},
           outdoorTemp          |-> {<<"9", "0">>},
           outdoorDewPoint      |-> {<<"6", "0">>},
           atticTemp            |-> {<<>>, <<"1", "2", "5">>, <<"1", "0", "0">>},
           atticDewPoint        |-> {<<"6", "2">>},
           atticArea            |-> {<<"1", "5", "0", "0">>},
           existingIntakeArea   |-> {<<>>, <<"3">>},
           existingExhaustArea  |-> {<<"2">>}])
  \/ calculateVentilation

SpecAttic == Mounted("attic", AtticFields) /\ [][NextAttic]_vars

\* The same component with readings on both sides of every check: attic 5 F
\* and 35 F above outdoor, pressure 1 and 3 Pa, dew point 2 F and 10 F above
\* outdoor, no vents entered or 3 sq ft of them under a 1500 sq ft attic.
NextAtticStatus ==
  \/ Edit("attic",
          [pressureDifferential |-> {<<"1">>, <<"3">>},
           outdoorTemp          |-> {<<"9", "0">>},
           outdoorDewPoint      |-> {<<"6", "0">>},
           atticTemp            |-> {<<"9", "5">>, <<"1", "2", "5">>},
           atticDewPoint        |-> {<<"6", "2">>, <<"7", "0">>},
           atticArea            |-> {<<"1", "5", "0", "0">>},
           existingIntakeArea   |-> {<<>>, <<"1">>},
           existingExhaustArea  |-> {<<"2">>}])
  \/ calculateVentilation

SpecAtticStatus == Mounted("attic", AtticFields) /\ [][NextAtticStatus]_vars

(***************************************************************************)
(* PressureCalculator of part_001                                          *)
(***************************************************************************)

PASCAL_TO_IWC == Dec(4014, -6)

TARGET_VELOCITY == Num(400)

MAX_VELOCITY == Num(600)

MIN_GRILLE_FREE_AREA == Dec(7, -1)

STANDARD_DUCT_SIZES == <<4, 5, 6, 7, 8, 9, 10, 12, 14, 16, 18, 20>>

STANDARD_GRILLE_SIZES ==
  <<[width |-> 8, height |-> 4], [width |-> 10, height |-> 4],
    [width |-> 12, height |-> 4], [width |-> 14, height |-> 4],
    [width |-> 8, height |-> 6], [width |-> 10, height |-> 6],
    [width |-> 12, height |-> 6], [width |-> 14, height |-> 6],
    [width |-> 10, height |-> 8], [width |-> 12, height |-> 8],
    [width |-> 14, height |-> 8], [width |-> 10, height |-> 10],
    [width |-> 12, height |-> 12], [width |-> 14, height |-> 14]>>

RECURSIVE FindDuctSize(_, _)
\* STANDARD_DUCT_SIZES.find(size => size >= calculatedSize)
\*   || STANDARD_DUCT_SIZES[STANDARD_DUCT_SIZES.length - 1], the search from
\* index i on: with no entry large enough find gives undefined and the largest
\* entry is taken.
FindDuctSize(calculatedSize, i) ==
  IF i > Len(STANDARD_DUCT_SIZES)
  THEN Num(STANDARD_DUCT_SIZES[Len(STANDARD_DUCT_SIZES)])
  ELSE IF Ge(Num(STANDARD_DUCT_SIZES[i]), calculatedSize)
  THEN Num(STANDARD_DUCT_SIZES[i])
  ELSE FindDuctSize(calculatedSize, i + 1)

getStandardDuctSize(calculatedSize) == FindDuctSize(calculatedSize, 1)

RECURSIVE LargestForHeight(_, _, _)
\* availableSizes[availableSizes.length - 1] || { width: 14, height }
LargestForHeight(sizes, selectedHeight, i) ==
  IF i = 0 THEN [width |-> Num(14), height |-> selectedHeight]
  ELSE IF Num(sizes[i].height) = selectedHeight
  THEN [width |-> Num(sizes[i].width), height |-> Num(sizes[i].height)]
  ELSE LargestForHeight(sizes, selectedHeight, i - 1)

RECURSIVE FindGrille(_, _, _, _)
\* The first standard size of the selected height whose free area
\* (width * height * 0.7) is at least requiredArea / 0.7; when there is none,
\* the largest size of that height.
FindGrille(sizes, requiredArea, selectedHeight, i) ==
  IF i > Len(sizes) THEN LargestForHeight(sizes, selectedHeight, Len(sizes))
  ELSE IF /\ Num(sizes[i].height) = selectedHeight
          /\ Ge(Mul(Mul(Num(sizes[i].width), Num(sizes[i].height)),
                    MIN_GRILLE_FREE_AREA),
                Div(requiredArea, MIN_GRILLE_FREE_AREA))
  THEN [width |-> Num(sizes[i].width), height |-> Num(sizes[i].height)]
  ELSE FindGrille(sizes, requiredArea, selectedHeight, i + 1)

getStandardGrilleSize(requiredArea, selectedHeight) ==
  FindGrille(STANDARD_GRILLE_SIZES, requiredArea, selectedHeight, 1)

\* (width * undercut) / 144 + ((2 * height + width) * 0.125) / 144
TotalLeakageArea(width, height, undercut) ==
  Add(Div(Mul(width, undercut), Num(144)),
      Div(Mul(Add(Mul(Num(2), height), width), Dec(125, -3)), Num(144)))

\* Math.sqrt((4 * ductArea) / Math.PI) * 12
DuctDiameter(ductArea) ==
  IF ductArea.k = "nan" THEN NaN
  ELSE Mul(Sqrt(Div(Mul(Num(4), ductArea), Pi)), Num(12))

\* cfm / (Math.PI * Math.pow(standardDuctSize / 24, 2))
ActualVelocity(cfm, standardDuctSize) ==
  Div(cfm, Mul(Pi, Mul(Div(standardDuctSize, Num(24)),
                       Div(standardDuctSize, Num(24)))))

PressureResultWith(grilleDimensions, requiredNFA, standardDuctSize, actualVelocity, warnings) ==
  [grilleSize |-> [width |-> grilleDimensions.width,
                   height |-> grilleDimensions.height,
                   area |-> Div(requiredNFA, Num(144))],
   ductSize |-> [diameter |-> standardDuctSize, velocity |-> actualVelocity],
   warnings |-> warnings]

VelocityWarnings(actualVelocity) ==
  IF Gt(actualVelocity, MAX_VELOCITY)
  THEN <<"Return air velocity exceeds maximum recommended - consider next size up duct">>
  ELSE <<>>

\* The result of calculateFromPressure but for calculatedAirflow.
FromPressureSized(pressure, calculatedAirflow, requiredNFA, selectedHeight, standardDuctSize) ==
  PressureResultWith(
    getStandardGrilleSize(requiredNFA, selectedHeight), requiredNFA,
    standardDuctSize, ActualVelocity(calculatedAirflow, standardDuctSize),
    (IF Gt(pressure, Num(3))
     THEN <<"Measured pressure exceeds 3 Pascals - consider reducing pressure differential">>
     ELSE <<>>)
    \o VelocityWarnings(ActualVelocity(calculatedAirflow, standardDuctSize)))

FromPressureFlow(pressure, calculatedAirflow, selectedHeight) ==
  [calculatedAirflow |-> calculatedAirflow]
  @@ FromPressureSized(pressure, calculatedAirflow,
                       Mul(Div(calculatedAirflow, TARGET_VELOCITY), Num(144)),
                       selectedHeight,
                       getStandardDuctSize(
                         DuctDiameter(Div(calculatedAirflow, TARGET_VELOCITY))))

\* calculatedAirflow = totalLeakageArea * 4005 * Math.sqrt(pressure * PASCAL_TO_IWC)
FromPressureResult(pressure, width, height, undercut, selectedHeight) ==
  FromPressureFlow(pressure,
                   Mul(Mul(TotalLeakageArea(width, height, undercut), Num(4005)),
                       Sqrt(Mul(pressure, PASCAL_TO_IWC))),
                   selectedHeight)

FromAirflowSized(pressure, totalLeakageArea, cfm, requiredNFA, selectedHeight, standardDuctSize) ==
  PressureResultWith(
    getStandardGrilleSize(requiredNFA, selectedHeight), requiredNFA,
    standardDuctSize, ActualVelocity(cfm, standardDuctSize),
    (IF Gt(pressure, Num(3))
     THEN <<"Target pressure exceeds 3 Pascals - consider reducing pressure differential">>
     ELSE <<>>)
    \o (IF Gt(totalLeakageArea,
              Mul(Div(requiredNFA, Num(144)), Dec(5, -1)))
        THEN <<"Door leakage area is significant - consider reducing gaps or increasing grille size">>
        ELSE <<>>)
    \o VelocityWarnings(ActualVelocity(cfm, standardDuctSize)))

FromAirflowResult(pressure, width, height, undercut, cfm, selectedHeight) ==
  FromAirflowSized(pressure, TotalLeakageArea(width, height, undercut), cfm,
                   Mul(Div(cfm, TARGET_VELOCITY), Num(144)), selectedHeight,
                   getStandardDuctSize(DuctDiameter(Div(cfm, TARGET_VELOCITY))))

\* onChange of the grille-height select: setSelectedGrilleHeight(parseInt(value))
selectGrilleHeight ==
  /\ app = "pressure"
  /\ \E value \in {<<"4">>, <<"1", "0">>} :
       /\ ParseInt(value) # fields.selectedGrilleHeight
       /\ Changed("pressure",
                  [fields EXCEPT !.selectedGrilleHeight = ParseInt(value)])

\* The button in 'pressure' mode.
calculateFromPressure ==
  /\ Clicked("pressure")
  /\ fields.calculationMode = "pressure"
  /\ IF \/ Empty(fields.measuredPressure) \/ Empty(fields.doorWidth)
        \/ Empty(fields.doorHeight) \/ Empty(fields.doorUndercut)
     THEN Skipped
     ELSE Stored(FromPressureResult(ParseFloat(fields.measuredPressure),
                                    ParseFloat(fields.doorWidth),
                                    ParseFloat(fields.doorHeight),
                                    ParseFloat(fields.doorUndercut),
                                    fields.selectedGrilleHeight))

\* The button in 'airflow' mode.
calculateFromAirflow ==
  /\ Clicked("pressure")
  /\ fields.calculationMode = "airflow"
  /\ IF \/ Empty(fields.targetPressure) \/ Empty(fields.doorWidth)
        \/ Empty(fields.doorHeight) \/ Empty(fields.doorUndercut)
        \/ Empty(fields.airflow)
     THEN Skipped
     ELSE Stored(FromAirflowResult(ParseFloat(fields.targetPressure),
                                   ParseFloat(fields.doorWidth),
                                   ParseFloat(fields.doorHeight),
                                   ParseFloat(fields.doorUndercut),
                                   ParseFloat(fields.airflow),
                                   fields.selectedGrilleHeight))

\* The slots of the component as useState initialises them.
PressureFields ==
  [calculationMode |-> "airflow", targetPressure |-> <<>>,
   measuredPressure |-> <<>>, doorWidth |-> <<>>, doorHeight |-> <<>>,
   doorUndercut |-> <<>>, airflow |-> <<>>, selectedGrilleHeight |-> Num(4)]

NextPressure ==
  \/ Edit("pressure", [calculationMode |-> {"airflow", "pressure"},
                       targetPressure |-> {<<"3">>},
                       measuredPressure |-> {<<"4">>},
                       doorWidth |-> {<<"3", "2">>},
                       doorHeight |-> {<<"8", "0">>},
                       doorUndercut |-> {<<"0", ".", "5">>},
                       airflow |-> {<<>>, <<"1", "0", "0">>}])
  \/ selectGrilleHeight
  \/ calculateFromPressure
  \/ calculateFromAirflow

SpecPressure == Mounted("pressure", PressureFields) /\ [][NextPressure]_vars

(***************************************************************************)
(* Properties                                                              *)
(***************************************************************************)

\* The result on screen was stored by component a from the fields as they are.
Shown(a) == app = a /\ fresh /\ result # Null

\* Some entry of seq is the text txt.
Contains(seq, txt) == \E i \in 1..Len(seq) : seq[i] = txt

\* The text holds no number: it is empty or parseFloat gives NaN.
Unparsed(text) == ParseFloat(text).k = "nan"

\* A required input of the mounted calculator is empty or unparseable.
MissingInput ==
  IF app = "capacitor"
  THEN Unparsed(fields.startWinding) \/ Unparsed(fields.voltage)
  ELSE IF app = "mold"
  THEN Unparsed(fields.dryBulb) \/ Unparsed(fields.relativeHumidity)
  ELSE IF app = "dehumidifier"
  THEN \/ Unparsed(fields.latentLoad) \/ Unparsed(fields.indoorTemp)
       \/ Unparsed(fields.indoorRH)
  ELSE IF app \in {"psychrometric", "systemPerformance"}
  THEN \/ Unparsed(fields.enteringDryBulb) \/ Unparsed(fields.enteringHumidity)
       \/ Unparsed(fields.leavingDryBulb) \/ Unparsed(fields.leavingHumidity)
       \/ Unparsed(fields.airflow) \/ Unparsed(fields.systemSize)
       \/ (app = "psychrometric" /\ fields.climateZone = "")
  ELSE IF app = "filter"
  THEN \/ Unparsed(fields.systemSize) \/ fields.climateZone = ""
       \/ Unparsed(fields.filterWidth) \/ Unparsed(fields.filterHeight)
       \/ fields.filterType = ""
  ELSE IF app = "attic"
  THEN \/ Unparsed(fields.pressureDifferential) \/ Unparsed(fields.outdoorTemp)
       \/ Unparsed(fields.outdoorDewPoint) \/ Unparsed(fields.atticTemp)
       \/ Unparsed(fields.atticDewPoint) \/ Unparsed(fields.atticArea)
  ELSE IF app = "pressure"
  THEN \/ Unparsed(fields.doorWidth) \/ Unparsed(fields.doorHeight)
       \/ Unparsed(fields.doorUndercut)
       \/ IF fields.calculationMode = "airflow"
          THEN Unparsed(fields.targetPressure) \/ Unparsed(fields.airflow)
          ELSE Unparsed(fields.measuredPressure)
  ELSE \/ fields.ductType = "" \/ Unparsed(fields.airflow)
       \/ Unparsed(fields.designStaticPressure)
       \/ (IsRect(fields.ductType) /\ Unparsed(fields.width))
       \/ \E i \in 1..Len(fields.fittings) : fields.fittings[i].quantity.k = "nan"

\* C1, as stated: in every calculator, when a required input is empty or not
\* parseable as a number at the time calculate is invoked, the calculation is
\* skipped and no result is stored: a result stored from the fields as they are
\* means that no required input was missing.
C1_SkippedWhenMissing == (fresh /\ result # Null) => ~MissingInput

\* The keys of a complete result record of component a (the room pressure
\* result carries calculatedAirflow in 'pressure' mode only).
ResultKeys(a, f) ==
  IF a = "capacitor" THEN {"capacitance", "tolerance", "ratedComparison"}
  ELSE IF a = "mold"
  THEN {"dewPoint", "vaporPressure", "absoluteHumidity", "riskLevel",
        "daysToMold", "recommendations"}
  ELSE IF a = "dehumidifier"
  THEN {"requiredCapacity", "pintsPerDay", "recommendedSize", "warnings"}
  ELSE IF a = "psychrometric"
  THEN {"enteringWetBulb", "enteringDewPoint", "enteringRH", "enteringEnthalpy",
        "enteringHumidityRatio", "leavingWetBulb", "leavingDewPoint",
        "leavingRH", "leavingEnthalpy", "leavingHumidityRatio", "sensibleBtuh",
        "latentBtuh", "totalBtuh", "sensibleHeatRatio", "standardCfmPerTon",
        "massAirflow", "condensationRate", "targetTemp", "measuredDeltaT"}
  ELSE IF a = "systemPerformance"
  THEN {"enteringWetBulb", "enteringDewPoint", "enteringRH", "enteringEnthalpy",
        "leavingWetBulb", "leavingDewPoint", "leavingRH", "leavingEnthalpy",
        "sensibleBtuh", "latentBtuh", "totalBtuh", "shr", "targetTemp",
        "nominalCapacity"}
  ELSE IF a = "duct"
  THEN {"velocity", "equivalentLength", "staticPressure",
        "availableStaticPressure", "recommendedSize", "warnings", "frictionRate"}
  ELSE IF a = "filter"
  THEN {"cfm", "filterArea", "fpm", "initialPressureDrop", "maxPressureDrop"}
  ELSE IF a = "attic"
  THEN {"pressureDifferential", "temperatureDifferential",
        "dewPointDifferential", "stackEffect", "requiredVentArea",
        "recommendations", "warnings", "ventilationStatus"}
  ELSE IF f.calculationMode = "pressure"
  THEN {"grilleSize", "ductSize", "calculatedAirflow", "warnings"}
  ELSE {"grilleSize", "ductSize", "warnings"}

\* C2: one invocation of a calculate action either stores a complete result
\* record computed from the current inputs or leaves the stored result exactly
\* as it was: the stored result changes only when a handler returns, the fields
\* untouched, to a record with every key of the component's result; and the
\* duct calculator invoked with a rectangular duct type and an empty width
\* changes neither the result nor the fields.
C2_AllOrNothing ==
  [][/\ (app' = app /\ result' # result) =>
          /\ runs' = runs + 1
          /\ fields' = fields
          /\ fresh'
          /\ DOMAIN result' = ResultKeys(app, fields)
     /\ (/\ app = "duct"
         /\ IsRect(fields.ductType)
         /\ Empty(fields.width)
         /\ runs' = runs + 1) => (result' = result /\ fields' = fields)]_vars

\* The duct calculator was invoked with a rectangular duct type and an empty
\* width while an earlier result was on screen; the result is still there.
C2_Witness ==
  /\ app = "duct"
  /\ IsRect(fields.ductType)
  /\ Empty(fields.width)
  /\ ~Empty(fields.airflow)
  /\ runs > 0
  /\ result # Null
  /\ ~fresh

C4_CappedSolver ==
  [][(app = "psychrometric" /\ pc \in {"enteringWetBulb", "leavingWetBulb"}) =>
       IF Gt(Abs(frame.error), Dec(1, -2)) /\ frame.iteration < 100
       THEN /\ pc' = pc
            /\ frame'.iteration = frame.iteration + 1
            /\ frame'.iteration <= 100
       ELSE IF pc = "enteringWetBulb"
       THEN pc' = "leavingWetBulb" /\ frame'.entering.wb = frame.wb
       ELSE pc' = "idle" /\ result'.leavingWetBulb = frame.wb]_vars

\* The solver was stopped by the cap: 100 passes made, the error still above
\* 0.01, the estimate an ordinary number.
C4_Witness ==
  /\ app = "psychrometric"
  /\ pc = "leavingWetBulb"
  /\ frame.iteration = 100
  /\ Gt(Abs(frame.error), Dec(1, -2))
  /\ frame.wb.k = "num"

\* C5, as stated: the refinement loop of the System Performance wet-bulb solver
\* is bounded by 100 passes for every dry-bulb/RH input.
C5_BoundedBy100 ==
  (app = "systemPerformance" /\ pc # "idle") => frame.iteration <= 100

\* 0 <= x <= 100
InPercentRange(x) == Ge(x, Zero) /\ Le(x, Num(100))

\* C6, as stated: in every result stored by a psychrometric calculator the
\* entering and the leaving relative humidity both lie in [0, 100].
C6_RHInRange ==
  (app \in {"psychrometric", "systemPerformance"} /\ result # Null) =>
    InPercentRange(result.enteringRH) /\ InPercentRange(result.leavingRH)

\* The smallest entries of the size ladder that are at least required.
SmallestAtLeast(required) ==
  {s \in {STANDARD_SIZES[i] : i \in 1..Len(STANDARD_SIZES)} :
     /\ Ge(Num(s), required)
     /\ \A i \in 1..Len(STANDARD_SIZES) :
          Ge(Num(STANDARD_SIZES[i]), required) => s <= STANDARD_SIZES[i]}

ExceedsWarning ==
  "Required capacity exceeds largest standard residential unit - consider multiple units or a commercial system"

\* The required capacity the claim describes, from the three fields.
RequiredOf(f) ==
  Mul(Div(Mul(Mul(ParseFloat(f.latentLoad), Dec(833, -4)), Num(24)),
          CapacityFactor(ParseFloat(f.indoorTemp), ParseFloat(f.indoorRH))),
      Dec(12, -1))

\* C7, as stated: for every input the recommended size is the smallest entry of
\* the ladder 20, 30, 35, 50, 70, 90, 120, 150, 180, 250 that is at least the
\* required capacity.
C7_SmallestSizeAlways ==
  Shown("dehumidifier") =>
    /\ result.requiredCapacity = RequiredOf(fields)
    /\ \E s \in SmallestAtLeast(result.requiredCapacity) :
         result.recommendedSize = SizeText(Num(s))

\* C7, amended: when the required capacity is at most 250 the recommended size
\* is the smallest ladder entry that is at least the required capacity; when it
\* is above 250 the recommended size is 250, with the warning that the required
\* capacity exceeds the largest standard unit.
C7_SmallestSizeOrLargest ==
  Shown("dehumidifier") =>
    /\ result.requiredCapacity = RequiredOf(fields)
    /\ IF Le(result.requiredCapacity, Num(250))
       THEN /\ \E s \in SmallestAtLeast(result.requiredCapacity) :
                 result.recommendedSize = SizeText(Num(s))
            /\ ~Contains(result.warnings, ExceedsWarning)
       ELSE /\ result.recommendedSize = SizeText(Num(250))
            /\ Contains(result.warnings, ExceedsWarning)

\* A load of 20 BTU/hr at 75 F and 65 %: 47.98 pints/day required, 50 PPD shown.
C7_Witness ==
  /\ Shown("dehumidifier")
  /\ fields.latentLoad = <<"2", "0">>
  /\ result.recommendedSize = <<"5", "0", " ", "P", "P", "D">>
  /\ Gt(result.requiredCapacity, Num(35))

\* The tier the claim gives for a relative humidity.
TierOf(rh) ==
  IF Lt(rh, Num(60)) THEN <<"Low", Null>>
  ELSE IF Lt(rh, Num(70)) THEN <<"Moderate", Num(30)>>
  ELSE IF Lt(rh, Num(80)) THEN <<"High", Num(14)>>
  ELSE <<"Severe", Num(7)>>

ReduceHumidity ==
  "Reduce indoor relative humidity below 60% using dehumidification"

\* C9, as stated: the risk level is above Low if and only if RH > 60, and
\* exactly then the recommendations contain the advice to reduce the humidity
\* below 60%.
C9_TieringAbove60 ==
  Shown("mold") =>
    /\ (result.riskLevel # "Low")
         <=> Gt(ParseFloat(fields.relativeHumidity), Num(60))
    /\ Contains(result.recommendations, ReduceHumidity)
         <=> Gt(ParseFloat(fields.relativeHumidity), Num(60))

\* The capacitance and the tolerance range the claim describes.
CapacitanceOf(f) ==
  Div(Mul(Num(2653), ParseFloat(f.startWinding)), ParseFloat(f.voltage))

FormulaHolds ==
  /\ result.capacitance = CapacitanceOf(fields)
  /\ result.tolerance.min = Mul(CapacitanceOf(fields), Dec(94, -2))
  /\ result.tolerance.max = Mul(CapacitanceOf(fields), Dec(106, -2))

Example5A230V ==
  fields.startWinding = <<"5">> /\ fields.voltage = <<"2", "3", "0">>

\* C10, as stated: capacitance = 2653 I / V with the range 0.94 to 1.06 times it,
\* and for 5 A at 230 V the panel shows 57.7 with the range 54.2 - 61.2.
C10_Shows61_2 ==
  Shown("capacitor") =>
    /\ FormulaHolds
    /\ Example5A230V =>
         CapacitorDisplay(result)
           = [capacitance |-> <<"5", "7", ".", "7">>,
              min |-> <<"5", "4", ".", "2">>, max |-> <<"6", "1", ".", "2">>]

\* C10, amended: capacitance = 2653 I / V with the range 0.94 to 1.06 times it,
\* and for 5 A at 230 V the panel shows 57.7 with the range 54.2 - 61.1.
C10_Shows61_1 ==
  Shown("capacitor") =>
    /\ FormulaHolds
    /\ Example5A230V =>
         CapacitorDisplay(result)
           = [capacitance |-> <<"5", "7", ".", "7">>,
              min |-> <<"5", "4", ".", "2">>, max |-> <<"6", "1", ".", "1">>]

\* 5 A at 230 V calculated and shown.
C10_Witness ==
  /\ Shown("capacitor")
  /\ Example5A230V
  /\ ToFixed(result.capacitance, 1) = <<"5", "7", ".", "7">>

FilterFormulaHolds ==
  /\ result.cfm = Mul(ParseFloat(fields.systemSize),
                      CLIMATE_ZONES[fields.climateZone])
  /\ result.filterArea = Div(Mul(ParseFloat(fields.filterWidth),
                                 ParseFloat(fields.filterHeight)), Num(144))
  /\ result.fpm = Div(result.cfm, result.filterArea)

Example3TonHotHumid20x25 ==
  /\ fields.systemSize = <<"3">> /\ fields.climateZone = "hot-humid"
  /\ fields.filterWidth = <<"2", "0">> /\ fields.filterHeight = <<"2", "5">>

FilterFigures(r) ==
  [cfm |-> FilterDisplay(r).cfm, filterArea |-> FilterDisplay(r).filterArea,
   fpm |-> FilterDisplay(r).fpm]

\* C11, as stated: airflow = tons x CFM per ton, face area = width x height / 144,
\* face velocity = airflow / face area, and 3 tons in the hot-humid zone with a
\* 20 x 25 filter show 1050 CFM, 3.47 sq ft and 303 FPM.
C11_Shows303 ==
  Shown("filter") =>
    /\ FilterFormulaHolds
    /\ Example3TonHotHumid20x25 =>
         FilterFigures(result)
           = [cfm |-> <<"1", "0", "5", "0">>,
              filterArea |-> <<"3", ".", "4", "7">>,
              fpm |-> <<"3", "0", "3">>]

\* C11, amended: airflow = tons x CFM per ton, face area = width x height / 144,
\* face velocity = airflow / face area, and 3 tons in the hot-humid zone with a
\* 20 x 25 filter show 1050 CFM, 3.47 sq ft and 302 FPM.
C11_Shows302 ==
  Shown("filter") =>
    /\ FilterFormulaHolds
    /\ Example3TonHotHumid20x25 =>
         FilterFigures(result)
           = [cfm |-> <<"1", "0", "5", "0">>,
              filterArea |-> <<"3", ".", "4", "7">>,
              fpm |-> <<"3", "0", "2">>]

\* 3 tons, hot-humid, 20 x 25 calculated and shown.
C11_Witness ==
  /\ Shown("filter")
  /\ Example3TonHotHumid20x25
  /\ ToFixed(result.cfm, 0) = <<"1", "0", "5", "0">>

\* |a - b| is within a millionth of scale: equal up to the rounding of the
\* arithmetic.  Never true of NaN.
Near(a, b, scale) == Le(Abs(Sub(a, b)), Mul(Dec(1, -6), Abs(scale)))

HeatScale == Add(Abs(result.sensibleBtuh), Abs(result.totalBtuh))

\* The capacities are what lines 572-576 compute from the slots and the two
\* stored enthalpies.
CapacityFormulas ==
  /\ result.massAirflow
       = Mul(Mul(ParseFloat(fields.airflow), Num(60)), Dec(75, -3))
  /\ result.sensibleBtuh
       = Mul(Mul(result.massAirflow, Dec(24, -2)),
             Sub(ParseFloat(fields.enteringDryBulb),
                 ParseFloat(fields.leavingDryBulb)))
  /\ result.totalBtuh
       = Mul(result.massAirflow,
             Sub(result.enteringEnthalpy, result.leavingEnthalpy))
  /\ result.latentBtuh = Sub(result.totalBtuh, result.sensibleBtuh)
  /\ Near(Add(result.sensibleBtuh, result.latentBtuh), result.totalBtuh,
          HeatScale)

RatioTimesTotalIsSensible ==
  Near(Mul(result.sensibleHeatRatio, result.totalBtuh), result.sensibleBtuh,
       HeatScale)

CompleteInputs ==
  /\ ~Empty(fields.enteringDryBulb) /\ ~Empty(fields.enteringHumidity)
  /\ ~Empty(fields.leavingDryBulb) /\ ~Empty(fields.leavingHumidity)
  /\ ~Empty(fields.airflow) /\ ~Empty(fields.systemSize)
  /\ fields.climateZone # ""

\* A click on complete inputs has run to its end: its result is on screen.
StoredWhenComplete ==
  (app = "psychrometric" /\ pc = "idle" /\ runs > 0 /\ CompleteInputs)
    => fresh /\ result # Null

IdenticalStates ==
  /\ fields.enteringDryBulb = fields.leavingDryBulb
  /\ fields.enteringHumidity = fields.leavingHumidity
  /\ fields.enteringHumidityType = fields.leavingHumidityType

LeavingWarmer ==
  Gt(ParseFloat(fields.leavingDryBulb), ParseFloat(fields.enteringDryBulb))

C13_WitnessNegative ==
  /\ Shown("psychrometric")
  /\ LeavingWarmer
  /\ Lt(result.sensibleHeatRatio, Zero)

\* Function f has been applied to the inputs and has returned.
Applied(f) == app = "functions" /\ pc = "returned" /\ result.function = f

\* a <= b up to the rounding of the arithmetic (a millionth of b).  Never
\* true of NaN.
NotAbove(a, b) == Le(a, Add(b, Mul(Dec(1, -6), Abs(b))))

\* C14: for every dry bulb T and every RH from 0 to 100, both ends included,
\* calculateDewPoint(T, RH) returns a number that is at most T.
C14_DewPointAtMostDryBulb ==
  Applied("calculateDewPoint") =>
    IsFinite(result.value) /\ NotAbove(result.value, fields.db)

\* C15: calculateWetBulb(T, RH) lies between calculateDewPoint(T, RH) and T,
\* in both components and also when the loop stopped at its cap.
C15_WetBulbBetween ==
  Applied("calculateWetBulb") =>
    /\ NotAbove(DewPointIn(fields.component, fields.db, fields.rh),
                result.value)
    /\ NotAbove(result.value, fields.db)

\* C16: calculateHumidityRatio(T, 100) is positive and is larger than at every
\* lower dry bulb, in both components.
C16_RatioIncreasingPositive ==
  (Applied("calculateHumidityRatio") /\ fields.rh = Num(100)) =>
    /\ Gt(result.value, Zero)
    /\ \A t1 \in Temperatures :
         Lt(t1, fields.db) =>
           Lt(HumidityRatioIn(fields.component, t1, Num(100)), result.value)

\* C17: for RH from 10 to 95 and T from 60 to 100 F,
\* calculateRHFromWetBulb(T, calculateWetBulb(T, RH)) is within half a
\* percentage point of RH.
C17_RoundTripWithinHalfPoint ==
  (/\ Applied("calculateRHFromWetBulb")
   /\ Ge(fields.rh, Num(10)) /\ Le(fields.rh, Num(95))
   /\ Ge(fields.db, Num(60)) /\ Le(fields.db, Num(100))) =>
    Le(Abs(Sub(result.value, fields.rh)), Dec(5, -1))

TemperatureDerate(temp) ==
  IF Ge(temp, Num(70)) THEN One
  ELSE IF Ge(temp, Num(65)) THEN Dec(85, -2) ELSE Dec(7, -1)

HumidityDerate(rh) == IF Ge(rh, Num(60)) THEN One ELSE Dec(8, -1)

LowTemperature == "Low temperature will reduce dehumidifier efficiency"

LowHumidity == "Low relative humidity will reduce moisture removal rate"

HighHumidity ==
  "High relative humidity may require additional run time or larger unit"

DeratingRules(temp, rh) ==
  /\ result.requiredCapacity
       = Mul(Div(result.pintsPerDay,
                 Mul(TemperatureDerate(temp), HumidityDerate(rh))),
             Dec(12, -1))
  /\ (Ge(temp, Num(70)) /\ Ge(rh, Num(60))) =>
       result.requiredCapacity = Mul(result.pintsPerDay, Dec(12, -1))
  /\ Contains(result.warnings, LowTemperature) <=> Lt(temp, Num(65))
  /\ Contains(result.warnings, LowHumidity) <=> Lt(rh, Num(60))
  /\ Contains(result.warnings, HighHumidity) <=> Gt(rh, Num(65))

\* C18: no derate at 70 F and above with RH 60 % and above (required capacity
\* = base pints/day x 1.2); x 0.85 for 65 F up to but not including 70 F;
\* x 0.7 and the low-temperature warning below 65 F; x 0.8 and the
\* low-humidity warning for RH below 60 %; the high-humidity warning exactly
\* for RH above 65 %: 75 F at 65 % derates nothing and warns of none of these.
C18_Derating ==
  Shown("dehumidifier") =>
    DeratingRules(ParseFloat(fields.indoorTemp), ParseFloat(fields.indoorRH))

\* 70 F at 60 %, both on their thresholds, calculated: no derate, no warning
\* of the three.
C18_Witness ==
  /\ Shown("dehumidifier")
  /\ fields.indoorTemp = <<"7", "0">> /\ fields.indoorRH = <<"6", "0">>
  /\ result.requiredCapacity = Mul(result.pintsPerDay, Dec(12, -1))
  /\ result.warnings = <<>>

\* The pressure losses of the four system components, added up in order.
ComponentLosses ==
  Add(Add(Add(Add(Zero, fields.components[1].pressureLoss),
              fields.components[2].pressureLoss),
          fields.components[3].pressureLoss),
      fields.components[4].pressureLoss)

LossesExceedDesign == "System component losses exceed design static pressure!"

LossesExceedAvailable ==
  "Calculated duct losses exceed available static pressure!"

\* C19: in every duct result available static pressure = design static
\* pressure - sum of the component losses, friction rate = available x 100 /
\* equivalent length, and the warnings hold the component-loss message exactly
\* when available < 0 and the duct-loss message exactly when the computed
\* static pressure loss > available.
C19_AvailablePressure ==
  Shown("duct") =>
    /\ result.availableStaticPressure
         = Sub(ParseFloat(fields.designStaticPressure), ComponentLosses)
    /\ result.frictionRate
         = Div(Mul(result.availableStaticPressure, Num(100)),
               result.equivalentLength)
    /\ Contains(result.warnings, LossesExceedDesign)
         <=> Lt(result.availableStaticPressure, Zero)
    /\ Contains(result.warnings, LossesExceedAvailable)
         <=> Gt(result.staticPressure, result.availableStaticPressure)

\* A metal duct whose computed loss equals the available pressure exactly:
\* neither message is shown.
C19_Witness ==
  /\ Shown("duct")
  /\ Gt(result.availableStaticPressure, Zero)
  /\ result.staticPressure = result.availableStaticPressure
  /\ ~Contains(result.warnings, LossesExceedDesign)
  /\ ~Contains(result.warnings, LossesExceedAvailable)

\* The defaults leave less than nothing: the component-loss message is shown.
C19_WitnessNegative ==
  /\ Shown("duct")
  /\ Lt(result.availableStaticPressure, Zero)
  /\ Contains(result.warnings, LossesExceedDesign)

\* The initialPressureDrops table of the fiberglass and of the best pleated
\* filter, by bucket.
TableEntry(filterType, bucket) ==
  IF filterType = "fiberglass"
  THEN (IF bucket = 300 THEN Dec(5, -2)
        ELSE IF bucket = 350 THEN Dec(8, -2) ELSE Dec(12, -2))
  ELSE (IF bucket = 300 THEN Dec(20, -2)
        ELSE IF bucket = 350 THEN Dec(25, -2) ELSE Dec(30, -2))

BucketOf(fpm) ==
  IF Le(fpm, Num(300)) THEN 300 ELSE IF Le(fpm, Num(350)) THEN 350 ELSE 400

\* Face velocities to compare the stored one with.
OtherVelocities ==
  {Num(100), Num(300), Dec(3001, -1), Num(315), Num(350), Dec(3501, -1),
   Num(400), Num(1000)}

\* C20: the initial pressure drop is the 300 entry of the selected filter's
\* table for a face velocity up to 300 FPM, the 350 entry above 300 and up to
\* 350, the 400 entry above 350; for a fixed filter type it does not decrease
\* as the face velocity grows; the face-velocity warning is shown exactly when
\* the face velocity is above 350.
C20_VelocityBuckets ==
  Shown("filter") =>
    /\ result.initialPressureDrop
         = TableEntry(fields.filterType, BucketOf(result.fpm))
    /\ \A v \in OtherVelocities :
         /\ Le(result.fpm, v) =>
              Le(result.initialPressureDrop,
                 InitialPressureDrop(v, FILTER_TYPES[fields.filterType]))
         /\ Le(v, result.fpm) =>
              Le(InitialPressureDrop(v, FILTER_TYPES[fields.filterType]),
                 result.initialPressureDrop)
    /\ \A t \in DOMAIN FILTER_TYPES :
         /\ Le(FILTER_TYPES[t].v300, FILTER_TYPES[t].v350)
         /\ Le(FILTER_TYPES[t].v350, FILTER_TYPES[t].v400)
    /\ FilterDisplay(result).velocityWarning <=> Gt(result.fpm, Num(350))

\* A filter at exactly 350 FPM calculated: the 350 entry and no warning.
C20_Witness ==
  /\ Shown("filter")
  /\ result.fpm = Num(350)
  /\ result.initialPressureDrop = TableEntry(fields.filterType, 350)
  /\ ~FilterDisplay(result).velocityWarning

\* C21: the target supply temperature the part_001 calculator reports, as the
\* panel prints it to one decimal, is the entering dry bulb less the 20 F
\* design split, for every system size and climate zone.
C21_TargetIsEnteringLess20 ==
  Shown("psychrometric") =>
    ToFixed(result.targetTemp, 1)
      = ToFixed(Sub(ParseFloat(fields.enteringDryBulb), Num(20)), 1)

CriticalDifferential ==
  "Critical temperature differential - immediate action recommended"

\* C22: the critical-temperature warning is in the warnings exactly when the
\* attic is more than 30 F above outdoor, and whenever it is there the
\* reported status is 'Critical', whatever the other checks find.
C22_CriticalStays ==
  Shown("attic") =>
    /\ Contains(result.warnings, CriticalDifferential)
         <=> Gt(result.temperatureDifferential, Num(30))
    /\ Contains(result.warnings, CriticalDifferential)
         => result.ventilationStatus = "Critical"

\* C23: in every attic result the status is 'Adequate' if and only if the
\* warnings list is empty.
C23_AdequateIffNoWarnings ==
  Shown("attic") =>
    (result.ventilationStatus = "Adequate" <=> result.warnings = <<>>)

\* An attic with one warning only, that of the pressure check, calculated.
C23_Witness ==
  /\ Shown("attic")
  /\ Len(result.warnings) = 1
  /\ Gt(Abs(result.pressureDifferential), Num(2))
  /\ result.ventilationStatus = "Inadequate"

\* An attic within every limit calculated: no warning and 'Adequate'.
C23_WitnessAdequate ==
  /\ Shown("attic")
  /\ result.warnings = <<>>
  /\ result.ventilationStatus = "Adequate"

\* The inputs of a sizing are positive: the airflow and, for rectangular
\* duct, the width.
PositiveSizing ==
  /\ Gt(ParseFloat(fields.airflow), Zero)
  /\ IsRect(fields.ductType) => Gt(ParseFloat(fields.width), Zero)

\* C24: for a positive airflow (and a positive width for rectangular duct) the
\* rounded-up size gives a velocity that does not exceed the midpoint of the
\* selected velocity range, and neither velocity warning is in the warnings.
C24_RoundedUpWithinTarget ==
  Shown("duct") /\ PositiveSizing =>
    /\ NotAbove(result.velocity,
                TargetVelocity(VELOCITY_LIMITS[fields.velocityAdjustment]))
    /\ ~Contains(result.warnings, VelocityWarning(fields.velocityAdjustment))
    /\ ~Contains(result.warnings,
                 "Velocity exceeds recommended limit for flex duct (900 FPM)")

\* A sizing in which the rounding up changed the size: the velocity is
\* strictly below the midpoint of the range.
C24_Witness ==
  /\ Shown("duct") /\ PositiveSizing
  /\ Lt(result.velocity,
        Mul(Dec(9, -1), TargetVelocity(VELOCITY_LIMITS[fields.velocityAdjustment])))

\* frictionLoss = (frictionRate * eqLength) / 100, from the stored result
FrictionLoss ==
  Div(Mul(result.frictionRate, result.equivalentLength), Num(100))

\* dynamicLosses, from the fittings and the stored velocity
DynamicLosses ==
  SumFittings(fields.fittings, 1, VelocityPressure(result.velocity), Zero)

LossesExceedAvailableText ==
  "Calculated duct losses exceed available static pressure!"

\* C25: with a non-zero equivalent length the friction-loss term equals the
\* available static pressure, so for duct other than flex the static pressure
\* loss is never below the available pressure and the message that the duct
\* losses exceed the available static pressure is in the warnings exactly
\* when the dynamic losses of the fittings are positive.
C25_MessageIffDynamicLosses ==
  Shown("duct") /\ ~Eq(result.equivalentLength, Zero) =>
    /\ Eq(FrictionLoss, result.availableStaticPressure)
    /\ fields.ductType # "round-flex" =>
         /\ ~Lt(result.staticPressure, result.availableStaticPressure)
         /\ Contains(result.warnings, LossesExceedAvailableText)
              <=> Gt(DynamicLosses, Zero)

\* C26: when a positive rated capacitance is supplied, withinRange is true
\* if and only if the rated value lies in [tolerance.min, tolerance.max] of
\* the same result.
C26_WithinRangeIffInTolerance ==
  /\ Shown("capacitor")
  /\ result.ratedComparison # Undefined
  /\ Gt(result.ratedComparison.value, Zero)
  => (result.ratedComparison.withinRange
        <=> /\ Le(result.tolerance.min, result.ratedComparison.value)
            /\ Le(result.ratedComparison.value, result.tolerance.max))

\* C27: in every filter result the initial pressure drop does not exceed the
\* maximum allowable pressure drop of the same result, for every filter type
\* and face velocity.
C27_InitialWithinMaximum ==
  Shown("filter") => Le(result.initialPressureDrop, result.maxPressureDrop)

\* The three pressure figures of a panel agree: design less component losses
\* is the available pressure, to the last digit the panel prints.
PanelConsistent(d) ==
  Le(Abs(Sub(Sub(ParseFloat(d.designStaticPressure), ParseFloat(d.componentLosses)),
             ParseFloat(d.availableStaticPressure))),
     Dec(1, -3))

\* C28: after any sequence of edits and calculations, whenever the duct
\* results panel is on the screen its displayed Design Static Pressure less
\* its displayed Component Losses is its displayed Available Static Pressure.
C28_PanelConsistent ==
  (app = "duct" /\ pc = "idle" /\ result # Null)
    => PanelConsistent(DuctDisplay(fields, result))

\* width * height * MIN_GRILLE_FREE_AREA of the recommended grille, sq in
GrilleFreeArea ==
  Mul(Mul(result.grilleSize.width, result.grilleSize.height),
      MIN_GRILLE_FREE_AREA)

\* requiredNFA in sq in, from the area the result stores (requiredNFA / 144)
RequiredNFA == Mul(result.grilleSize.area, Num(144))

\* No standard grille of the selected height has the free area required.
NoGrilleLargeEnough ==
  \A i \in 1..Len(STANDARD_GRILLE_SIZES) :
    Num(STANDARD_GRILLE_SIZES[i].height) = fields.selectedGrilleHeight
      => Lt(Mul(Mul(Num(STANDARD_GRILLE_SIZES[i].width),
                    Num(STANDARD_GRILLE_SIZES[i].height)),
                MIN_GRILLE_FREE_AREA),
            RequiredNFA)

\* The warnings the two modes have for pressure, door leakage and velocity.
OtherWarnings ==
  {"Measured pressure exceeds 3 Pascals - consider reducing pressure differential",
   "Target pressure exceeds 3 Pascals - consider reducing pressure differential",
   "Door leakage area is significant - consider reducing gaps or increasing grille size",
   "Return air velocity exceeds maximum recommended - consider next size up duct"}

\* C29: in both modes the recommended grille has the selected height and a
\* free area (width x height x 0.7) of at least the required net free area,
\* and whenever no standard grille of the selected height is large enough the
\* warnings have an entry that says so.
C29_GrilleCoversRequiredArea ==
  Shown("pressure") =>
    /\ result.grilleSize.height = fields.selectedGrilleHeight
    /\ \/ NotAbove(RequiredNFA, GrilleFreeArea)
       \/ /\ NoGrilleLargeEnough
          /\ \E i \in 1..Len(result.warnings) :
               result.warnings[i] \notin OtherWarnings

(***************************************************************************)
(* App: the suite shows one calculator at a time                           *)
(***************************************************************************)

\* useState('filter'): the suite opens on the filter calculator.
Init == Mounted("filter", FilterFields)

\* onClick={() => setActiveCalculator(calc.id)}: the active component is
\* unmounted and the one chosen is mounted, its slots at their initial values.
\* The id 'psychrometric' stands for either of the two psychrometric
\* components of the sources.
setActiveCalculator ==
  /\ pc = "idle"
  /\ \/ Activated("capacitor", CapacitorFields)
     \/ Activated("mold", MoldFields)
     \/ Activated("dehumidifier", DehumidifierFields)
     \/ Activated("psychrometric", PsychrometricFields)
     \/ Activated("systemPerformance", PsychrometricFields)
     \/ Activated("duct", DuctFields)
     \/ Activated("filter", FilterFields)
     \/ Activated("attic", AtticFields)
     \/ Activated("pressure", PressureFields)

Next ==
  \/ setActiveCalculator
  \/ NextCapacitor
  \/ NextMold
  \/ NextDehumidifier
  \/ NextPsychrometric
  \/ NextSystemPerformance
  \/ NextDuct
  \/ NextFilter
  \/ NextAttic
  \/ NextPressure

Spec == Init /\ [][Next]_vars
====
